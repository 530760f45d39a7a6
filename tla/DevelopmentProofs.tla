-------------------------- MODULE DevelopmentProofs ---------------------------
(***************************************************************************)
(* The pipelines, the integration runner, the operator and the agents that *)
(* work by hand only make transactions of the orchestrator, so what is     *)
(* proved of OrchestratorSpec holds of all of them together, for any       *)
(* number of runs, crashes and interventions.                              *)
(***************************************************************************)
EXTENDS Development, OrchestratorProofs

\* The integration runner that has begun works on a run and remembers MAIN.
LEMMA IntegratorType ==
    ASSUME TypeOK, integrator.place # "idle"
    PROVE  /\ integrator.run \in Runs /\ integrator.previous \in Nat
           /\ integrator \in [place : {"begin", "rebase", "merge", "failed"},
                              run : Runs, previous : Nat]
BY DEF TypeOK, ProcessTypeOK, NoIntegration

\* Every transaction of a pipeline is one of the orchestrator.
LEMMA PipelineTransactions ==
    ASSUME TypeOK, NEW r \in Runs, PipelineStep(r)
    PROVE  Next \/ UNCHANGED projectVars
<1>1. TaskOf[r] \in Tasks /\ seen[r] \in Nat
  BY OrchestratorAssumption DEF TypeOK, ProcessTypeOK
<1>2. CASE Begin(r)
  BY <1>1, <1>2 DEF Begin, Refused, Next
<1>3. CASE Implement(r)
  BY <1>3 DEF Implement, Refused, Next
<1>4. CASE SubmitRun(r)
  BY <1>1, <1>4 DEF SubmitRun, Refused, Next
<1>5. CASE Mark(r)
  BY <1>5 DEF Mark, Refused, Next
<1>6. CASE AssignRunReviewer(r)
  BY <1>1, <1>6 DEF AssignRunReviewer, Refused, Next
<1>7. CASE Review(r)
  BY <1>1, <1>7 DEF Review, Refused, Next
<1>8. CASE Security(r)
  BY <1>1, <1>8 DEF Security, Refused, Next
<1>9. CASE AssignRunTester(r)
  BY <1>1, <1>9 DEF AssignRunTester, Refused, Next
<1>10. CASE QA(r)
  BY <1>1, <1>10 DEF QA, Refused, Next
<1>11. CASE Complete(r)
  BY <1>11 DEF Complete, Refused, Next
<1>12. CASE PersistFailure(r)
  BY <1>12 DEF PersistFailure, Next
<1>13. QED
  BY <1>2, <1>3, <1>4, <1>5, <1>6, <1>7, <1>8, <1>9, <1>10, <1>11, <1>12 DEF PipelineStep

\* So is every transaction of the integration runner.
LEMMA IntegrationTransactions ==
    ASSUME TypeOK,
           \/ BeginStep \/ RebaseStep \/ MergeStep
           \/ IntegrationFails \/ PersistIntegrationFailure \/ IntegrationCrash
    PROVE  Next \/ UNCHANGED projectVars
<1>1. CASE BeginStep
  <2>1. integrator.run \in Runs /\ integrator.previous \in Nat
    BY <1>1, IntegratorType DEF BeginStep, Integrating
  <2>2. QED
    BY <1>1, <2>1 DEF BeginStep, Next
<1>2. CASE RebaseStep
  <2>1. integrator.run \in Runs /\ integrator.previous \in Nat
    BY <1>2, IntegratorType DEF RebaseStep, Integrating
  <2>2. run[integrator.run].base \in Nat
    BY <2>1, RunRecord DEF TypeOK, ProjectTypeOK
  <2>3. QED
    BY <1>2, <2>1, <2>2 DEF RebaseStep, Next
<1>3. CASE MergeStep
  <2>1. integrator.run \in Runs /\ integrator.previous \in Nat
    BY <1>3, IntegratorType DEF MergeStep, Integrating
  <2>2. QED
    BY <1>3, <2>1 DEF MergeStep, Next
<1>4. CASE IntegrationFails
  BY <1>4 DEF IntegrationFails
<1>5. CASE PersistIntegrationFailure
  <2>1. integrator.run \in Runs
    BY <1>5, IntegratorType DEF PersistIntegrationFailure, Integrating
  <2>2. QED
    BY <1>5, <2>1 DEF PersistIntegrationFailure, Next
<1>6. CASE IntegrationCrash
  BY <1>6 DEF IntegrationCrash
<1>7. QED
  BY <1>1, <1>2, <1>3, <1>4, <1>5, <1>6

\* And everything the operator and the other agents do.
LEMMA DevelopmentTransactions ==
    ASSUME TypeOK, DevNext
    PROVE  Next \/ UNCHANGED projectVars
<1>1. ASSUME NEW r \in Runs, StartPipeline(r) \/ StageFails(r) \/ PipelineCrash(r)
                             \/ StartIntegration(r)
      PROVE  UNCHANGED projectVars
  BY <1>1 DEF StartPipeline, StageFails, PipelineCrash, StartIntegration
<1>2. ASSUME NEW r \in Runs, RecoverIntegration(r) \/ Reap(r) PROVE Next
  BY <1>2 DEF RecoverIntegration, Reap, Next
<1>3. ASSUME NEW t \in Tasks, Plan(t) PROVE Next
  BY <1>3 DEF Plan, Next
<1>4. ASSUME NEW t \in Tasks, Cancel(t) \/ Reopen(t) \/ Rebase(t) PROVE Next
  BY <1>4 DEF Cancel, Reopen, Rebase, Next
<1>5. ASSUME NEW t \in ManualTasks, Manual(t) PROVE Next
  BY <1>5 DEF Manual, ManualTasks, Next
<1>6. ASSUME NewCycle PROVE Next
  BY <1>6 DEF NewCycle, Next
<1>7. QED
  BY <1>1, <1>2, <1>3, <1>4, <1>5, <1>6, PipelineTransactions, IntegrationTransactions
  DEF DevNext

\* The processes keep their types.
LEMMA ProcessTypeStep ==
    ASSUME TypeOK, DevNext
    PROVE  ProcessTypeOK'
<1>1. ASSUME NEW r \in Runs, StartPipeline(r) PROVE ProcessTypeOK'
  <2>1. task[TaskOf[r]].base \in Nat
    BY OrchestratorAssumption, TaskRecord DEF TypeOK, ProjectTypeOK
  <2>2. QED
    BY <1>1, <2>1 DEF StartPipeline, Goto, TypeOK, ProcessTypeOK, Places
<1>2. ASSUME NEW r \in Runs, PipelineStep(r) PROVE ProcessTypeOK'
  <2>1. /\ seen' = seen /\ integrator' = integrator
        /\ \E place \in Places : pc' = [pc EXCEPT ![r] = place]
    BY <1>2
    DEF PipelineStep, Begin, Implement, SubmitRun, Mark, AssignRunReviewer, Review, AfterReview,
        Security, AssignRunTester, QA, Complete, PersistFailure, At, Goto, Refused, Places, Raised
  <2>2. QED
    BY <2>1 DEF TypeOK, ProcessTypeOK
<1>3. ASSUME NEW r \in Runs, StageFails(r) \/ PipelineCrash(r) PROVE ProcessTypeOK'
  BY <1>3 DEF StageFails, PipelineCrash, Goto, TypeOK, ProcessTypeOK, Places, Raised
<1>4. ASSUME NEW r \in Runs, RecoverIntegration(r) \/ Reap(r) PROVE ProcessTypeOK'
  BY <1>4 DEF RecoverIntegration, Reap, Integrating, Intervene, TypeOK, ProcessTypeOK
<1>5. ASSUME NEW r \in Runs, StartIntegration(r) PROVE ProcessTypeOK'
  BY <1>5 DEF StartIntegration, Integrating, TypeOK, ProjectTypeOK, ProcessTypeOK
<1>6. ASSUME \/ BeginStep \/ RebaseStep \/ MergeStep
             \/ IntegrationFails \/ PersistIntegrationFailure \/ IntegrationCrash
      PROVE ProcessTypeOK'
  <2>1. /\ pc' = pc /\ seen' = seen
        /\ \/ integrator' = NoIntegration
           \/ /\ integrator.place # "idle"
              /\ \E place \in {"rebase", "merge", "failed"} :
                    integrator' = [integrator EXCEPT !.place = place]
    BY <1>6
    DEF BeginStep, RebaseStep, MergeStep, IntegrationFails, PersistIntegrationFailure,
        IntegrationCrash, Integrating, Continue, Leave
  <2>2. QED
    BY <2>1, IntegratorType DEF TypeOK, ProcessTypeOK
<1>7. ASSUME NEW t \in Tasks, Plan(t) \/ Cancel(t) \/ Reopen(t) \/ Rebase(t)
      PROVE ProcessTypeOK'
  BY <1>7 DEF Plan, Cancel, Reopen, Rebase, Intervene, processVars, TypeOK, ProcessTypeOK
<1>8. ASSUME NEW t \in ManualTasks, Manual(t) PROVE ProcessTypeOK'
  BY <1>8 DEF Manual, processVars, TypeOK, ProcessTypeOK
<1>9. ASSUME NewCycle PROVE ProcessTypeOK'
  BY <1>9 DEF NewCycle, Intervene, TypeOK, ProcessTypeOK
<1>10. QED
  BY <1>1, <1>2, <1>3, <1>4, <1>5, <1>6, <1>7, <1>8, <1>9 DEF DevNext

\* The project state and the processes always have their types.
THEOREM TypeCorrect == DevSpec => []TypeOK
<1>1. DevInit => TypeOK
  BY ProjectTypeInit DEF DevInit, TypeOK, ProcessTypeOK, Places
<1>2. TypeOK /\ [DevNext]_vars => TypeOK'
  <2> SUFFICES ASSUME TypeOK, [DevNext]_vars PROVE TypeOK'
    OBVIOUS
  <2>1. CASE DevNext
    <3>1. ProjectTypeOK'
      BY <2>1, DevelopmentTransactions, ProjectTypeStep DEF TypeOK
    <3>2. QED
      BY <2>1, <3>1, ProcessTypeStep DEF TypeOK
  <2>2. CASE UNCHANGED vars
    <3>1. ProjectTypeOK'
      BY <2>2, ProjectTypeStep DEF TypeOK, vars
    <3>2. QED
      BY <2>2, <3>1 DEF TypeOK, ProcessTypeOK, vars, processVars
  <2>3. QED
    BY <2>1, <2>2
<1>3. QED
  BY <1>1, <1>2, PTL DEF DevSpec

\* Development implements the orchestrator: whatever the processes do, one
\* after another, is a sequence of its transactions.
THEOREM DevelopmentImplements == DevSpec => OrchestratorSpec
<1>1. DevInit => ProjectInit
  BY DEF DevInit
<1>2. TypeOK /\ [DevNext]_vars => [Next]_projectVars
  BY DevelopmentTransactions DEF vars
<1>3. QED
  BY <1>1, <1>2, TypeCorrect, PTL DEF DevSpec, OrchestratorSpec

\* So the gates, the write scopes, the dependencies, the lists and the limits are right
\* whatever the pipelines, the integration and the operator do at once.
THEOREM DevelopmentSafe ==
    DevSpec => [](GatesPassed /\ OneWriter /\ DependenciesFirst /\ ListsMatch /\ LimitsHold)
BY DevelopmentImplements, GatesPassedCorrect, OneWriterCorrect, DependenciesFirstCorrect,
   ListsMatchCorrect, LimitsCorrect, PTL

-----------------------------------------------------------------------------
(***************************************************************************)
(* Pipelines and the integration.  At most one pipeline of a task is alive;*)
(* its run has not ended, and the task names that run unless it was        *)
(* reopened meanwhile (LiveRun).  A task names only its own, begun runs,   *)
(* and is in review only for one of them (OwnRun).  A run that waits for   *)
(* its integration is the one its task names, its pipeline has ended, and  *)
(* nobody works on the task (WaitingRun).                                  *)
(***************************************************************************)
Waiting == {"ready_to_integrate", "integrating"}
InReview == {"review_pending", "qa_pending", "ready_to_integrate"}

LiveRun(r) ==
    /\ Live(r) => run[r].state \in {"none", "running", "submitted"}
    /\ pc[r] \in {"idle", "begin"} => run[r].state = "none"
    /\ Live(r) /\ pc[r] # "begin" /\ pc[r] \notin Raised => run[r].state # "none"
    /\ Live(r) /\ run[r].state # "none" => task[TaskOf[r]].runId \in {r, NoRun}

OnePipeline(t) ==
    \A r, other \in Runs :
        TaskOf[r] = t /\ TaskOf[other] = t /\ Live(r) /\ Live(other) => r = other

OwnRun(t) ==
    /\ task[t].runId # NoRun
          => TaskOf[task[t].runId] = t /\ run[task[t].runId].state # "none"
    /\ t \notin ManualTasks /\ task[t].runId = NoRun => task[t].state \notin InReview

WaitingRun(r) ==
    run[r].state \in Waiting =>
        /\ task[TaskOf[r]].state \in {"ready_to_integrate", "cancelled"}
        /\ task[TaskOf[r]].runId = r /\ pc[r] = "done"
        /\ \A other \in Runs : TaskOf[other] = TaskOf[r] => ~Live(other)

Matches(t) ==
    LET r == task[t].runId
    IN  /\ task[t].state = "ready_to_integrate" /\ r # NoRun /\ pc[r] = "done"
        => /\ run[r].state \in Waiting
           /\ run[r].impl = task[t].impl

ClosedRun(r) == pc[r] = "done" => run[r].state \notin {"running", "submitted"}

OnTask(t) ==
    /\ \A r \in Runs : TaskOf[r] = t => LiveRun(r) /\ WaitingRun(r) /\ ClosedRun(r)
    /\ OnePipeline(t) /\ OwnRun(t) /\ Matches(t)

PipeInv == \A t \in Tasks : OnTask(t)

(***************************************************************************)
(* What one step of a pipeline does to its run and its task.               *)
(***************************************************************************)
SameTask(t) == /\ task'[t].state = task[t].state /\ task'[t].runId = task[t].runId
               /\ task'[t].impl = task[t].impl
SameRun(r) == run'[r].state = run[r].state /\ run'[r].impl = run[r].impl
Elsewhere(r) ==
    /\ \A o \in Runs \ {r} : pc'[o] = pc[o] /\ SameRun(o)
    /\ \A u \in Tasks \ {TaskOf[r]} : SameTask(u)

RunBegins(r) ==
    /\ pc[r] = "begin" /\ pc'[r] = "implement"
    /\ run[r].state = "none" /\ run'[r].state = "running"
    /\ task[TaskOf[r]].state = "active" /\ task'[TaskOf[r]].state = "active"
    /\ task'[TaskOf[r]].runId = r

RunRaises(r) == Live(r) /\ pc'[r] \in Raised \cup {"dead"} /\ SameRun(r) /\ SameTask(TaskOf[r])

RunWorks(r) ==
    /\ pc[r] \in {"implement", "mark"} /\ pc'[r] \in {"submit", "assign reviewer"}
    /\ run'[r].state \in {run[r].state, "submitted"} /\ SameTask(TaskOf[r])

RunSubmits(r) ==
    /\ pc[r] = "submit" /\ pc'[r] = "mark" /\ SameRun(r)
    /\ task'[TaskOf[r]].state = "review_pending" /\ task'[TaskOf[r]].runId = r

RunDecides(r) ==
    /\ pc[r] \in {"assign reviewer", "review", "security", "assign tester", "qa"}
    /\ pc'[r] \in {"review", "security", "assign tester", "qa", "complete"} \cup Raised
    /\ SameRun(r)
    /\ task[TaskOf[r]].state \in {"review_pending", "qa_pending"}
    /\ task'[TaskOf[r]].state \in InReview \cup {"blocked"}
    /\ task'[TaskOf[r]].runId = task[TaskOf[r]].runId

RunCompletes(r) ==
    /\ pc[r] = "complete" /\ pc'[r] = "done" /\ SameTask(TaskOf[r])
    /\ run'[r].state = "ready_to_integrate" /\ run'[r].impl = run[r].impl
    /\ task[TaskOf[r]].state = "ready_to_integrate" /\ task[TaskOf[r]].impl = run[r].impl

RunFails(r) ==
    /\ pc[r] \in Raised /\ pc'[r] = "done"
    /\ run'[r].state \in {"blocked", "failed"} /\ task'[TaskOf[r]].state \in {"blocked", "failed"}
    /\ task'[TaskOf[r]].runId = task[TaskOf[r]].runId

RunLeaves(r) ==
    /\ pc[r] \in Raised /\ pc'[r] = "done" /\ SameRun(r) /\ SameTask(TaskOf[r])
    /\ run[r].state \notin {"running", "submitted", "integrating"}

RunSteps(r) ==
    \/ RunBegins(r) \/ RunRaises(r) \/ RunWorks(r) \/ RunSubmits(r)
    \/ RunDecides(r) \/ RunCompletes(r) \/ RunFails(r) \/ RunLeaves(r)

LEMMA GateOutcome ==
    ASSUME ProjectTypeOK, NEW t \in Tasks, NEW passed \in BOOLEAN,
           \/ RecordReview(t, passed) \/ RecordSecurity(t, passed) \/ RecordQA(t, passed)
    PROVE  /\ task[t].state \in {"review_pending", "qa_pending"}
           /\ task'[t].state \in InReview \cup {"blocked"}
           /\ task'[t].runId = task[t].runId
           /\ run' = run /\ \A u \in Tasks \ {t} : task'[u] = task[u]
<1>1. task[t] \in TaskRecords /\ task \in [Tasks -> TaskRecords]
  BY DEF ProjectTypeOK
<1>2. CASE RecordReview(t, passed)
  BY <1>1, <1>2 DEF RecordReview, CanReview, InReview, TaskRecords
<1>3. ASSUME NEW tr \in TaskRecords, RecordGate(t, passed, tr), tr.runId = task[t].runId,
             tr.state \in {"review_pending", "qa_pending"}
      PROVE  /\ task'[t].state \in InReview \cup {"blocked"}
             /\ task'[t].runId = task[t].runId
             /\ run' = run /\ \A u \in Tasks \ {t} : task'[u] = task[u]
  BY <1>1, <1>3 DEF RecordGate, Refreshed, InReview, TaskRecords
<1>4. CASE RecordSecurity(t, passed)
  <2> DEFINE tr == [task[t] EXCEPT !.security = IF passed THEN "approved" ELSE "rejected"]
  <2>1. tr \in TaskRecords
    BY <1>1, TaskRecord
  <2>3. tr.runId = task[t].runId /\ tr.state = task[t].state
    BY <1>1 DEF TaskRecords
  <2>2. task[t].state \in {"review_pending", "qa_pending"} /\ RecordGate(t, passed, tr)
    BY <1>4 DEF RecordSecurity, CanSecurity
  <2> HIDE DEF tr
  <2> QED
    BY <1>3, <2>1, <2>2, <2>3
<1>5. CASE RecordQA(t, passed)
  <2> DEFINE tr == [task[t] EXCEPT !.qa = IF passed THEN "passed" ELSE "failed"]
  <2>1. tr \in TaskRecords
    BY <1>1, TaskRecord
  <2>3. tr.runId = task[t].runId /\ tr.state = task[t].state
    BY <1>1 DEF TaskRecords
  <2>2. task[t].state \in {"review_pending", "qa_pending"} /\ RecordGate(t, passed, tr)
    BY <1>5 DEF RecordQA, CanQA
  <2> HIDE DEF tr
  <2> QED
    BY <1>3, <2>1, <2>2, <2>3
<1> QED
  BY <1>2, <1>4, <1>5

LEMMA PipelineEffect ==
    ASSUME TypeOK, NEW r \in Runs, PipelineStep(r)
    PROVE  Elsewhere(r) /\ RunSteps(r)
<1> DEFINE t == TaskOf[r]
<1>1. /\ t \in Tasks /\ task[t] \in TaskRecords /\ run[r] \in RunRecords
      /\ task \in [Tasks -> TaskRecords] /\ run \in [Runs -> RunRecords]
      /\ pc \in [Runs -> Places] /\ r # NoRun
  BY OrchestratorAssumption DEF TypeOK, ProjectTypeOK, ProcessTypeOK
<1>2. \A place : Goto(r, place) => pc'[r] = place /\ \A o \in Runs \ {r} : pc'[o] = pc[o]
  BY <1>1 DEF Goto
<1>3. ASSUME UNCHANGED <<task, run>>
      PROVE  \A o \in Runs : SameRun(o) /\ \A u \in Tasks : SameTask(u)
  BY <1>3 DEF SameRun, SameTask
<1>4. ASSUME Refused(r), Live(r)
      PROVE  Elsewhere(r) /\ RunSteps(r)
  BY <1>1, <1>2, <1>3, <1>4 DEF Refused, projectVars, Elsewhere, RunSteps, RunRaises, Raised
<1>5. CASE Begin(r)
  <2>1. CASE Refused(r)
    BY <1>4, <1>5, <2>1 DEF Begin, At, Live
  <2>2. CASE BeginRun(r, seen[r]) /\ Goto(r, "implement")
    <3>1. Elsewhere(r)
      BY <1>1, <1>2, <2>2 DEF BeginRun, Elsewhere, SameRun, SameTask
    <3>2. RunBegins(r)
      BY <1>1, <1>2, <1>5, <2>2 DEF Begin, At, BeginRun, CanBeginRun, RunBegins, TaskRecords
    <3> QED
      BY <3>1, <3>2 DEF RunSteps
  <2> QED
    BY <1>5, <2>1, <2>2 DEF Begin
<1>6. CASE Implement(r) \/ Mark(r)
  <2>1. CASE Refused(r)
    BY <1>4, <1>6, <2>1 DEF Implement, Mark, At, Live
  <2>2. CASE RecordCommit(r) /\ Goto(r, "submit") /\ pc[r] = "implement"
    <3>1. Elsewhere(r)
      BY <1>1, <1>2, <2>2 DEF RecordCommit, Elsewhere, SameRun, SameTask
    <3>2. RunWorks(r)
      BY <1>1, <1>2, <2>2 DEF RecordCommit, RunWorks, SameTask, RunRecords
    <3> QED
      BY <3>1, <3>2 DEF RunSteps
  <2>3. CASE MarkSubmitted(r) /\ Goto(r, "assign reviewer") /\ pc[r] = "mark"
    <3>1. Elsewhere(r)
      BY <1>1, <1>2, <2>3 DEF MarkSubmitted, Elsewhere, SameRun, SameTask
    <3>2. RunWorks(r)
      BY <1>1, <1>2, <2>3 DEF MarkSubmitted, RunWorks, SameTask, RunRecords
    <3> QED
      BY <3>1, <3>2 DEF RunSteps
  <2> QED
    BY <1>6, <2>1, <2>2, <2>3 DEF Implement, Mark, At
<1>7. CASE SubmitRun(r)
  <2>1. CASE Refused(r)
    BY <1>4, <1>7, <2>1 DEF SubmitRun, At, Live
  <2>2. CASE Submit(t, r) /\ Goto(r, "mark")
    <3>1. Elsewhere(r)
      BY <1>1, <1>2, <2>2 DEF Submit, Elsewhere, SameRun, SameTask
    <3>2. RunSubmits(r)
      BY <1>1, <1>2, <1>7, <2>2 DEF SubmitRun, At, Submit, RunSubmits, SameRun, TaskRecords
    <3> QED
      BY <3>1, <3>2 DEF RunSteps
  <2> QED
    BY <1>7, <2>1, <2>2 DEF SubmitRun
<1>8. CASE AssignRunReviewer(r) \/ AssignRunTester(r)
  <2>1. CASE Refused(r)
    BY <1>4, <1>8, <2>1 DEF AssignRunReviewer, AssignRunTester, At, Live
  <2>2. CASE /\ AssignReviewer(t) \/ AssignQA(t)
             /\ pc[r] \in {"assign reviewer", "assign tester"}
             /\ Goto(r, "review") \/ Goto(r, "qa")
    <3>1. Elsewhere(r)
      BY <1>1, <1>2, <2>2 DEF AssignReviewer, AssignQA, Elsewhere, SameRun, SameTask
    <3>2. /\ task[t].state \in {"review_pending", "qa_pending"} /\ run' = run
          /\ task'[t].state = task[t].state /\ task'[t].runId = task[t].runId
      <4>1. CASE AssignReviewer(t)
        BY <1>1, <4>1 DEF AssignReviewer, TaskRecords
      <4>2. CASE AssignQA(t)
        BY <1>1, <4>2 DEF AssignQA, TaskRecords
      <4> QED
        BY <2>2, <4>1, <4>2
    <3>3. RunDecides(r)
      BY <1>2, <2>2, <3>2 DEF RunDecides, SameRun, InReview
    <3> QED
      BY <3>1, <3>3 DEF RunSteps
  <2> QED
    BY <1>8, <2>1, <2>2 DEF AssignRunReviewer, AssignRunTester, At
<1>9. CASE Review(r) \/ Security(r) \/ QA(r)
  <2>1. CASE Refused(r)
    BY <1>4, <1>9, <2>1 DEF Review, Security, QA, At, Live
  <2>2. ASSUME NEW passed \in BOOLEAN,
               \/ RecordReview(t, passed) \/ RecordSecurity(t, passed) \/ RecordQA(t, passed),
               NEW place \in {"security", "assign tester", "complete", "raised blocked"},
               Goto(r, place)
        PROVE  Elsewhere(r) /\ RunSteps(r)
    <3>1. /\ task[t].state \in {"review_pending", "qa_pending"}
          /\ task'[t].state \in InReview \cup {"blocked"}
          /\ task'[t].runId = task[t].runId
          /\ run' = run /\ \A u \in Tasks \ {t} : task'[u] = task[u]
      BY <1>1, <2>2, GateOutcome DEF TypeOK
    <3>2. Elsewhere(r) /\ SameRun(r)
      BY <1>2, <2>2, <3>1 DEF Elsewhere, SameRun, SameTask
    <3>3. pc[r] \in {"review", "security", "qa"} /\ pc'[r] = place
      BY <1>2, <1>9, <2>2 DEF Review, Security, QA, At
    <3> QED
      BY <3>1, <3>2, <3>3 DEF RunSteps, RunDecides, Raised
  <2>3. CASE Review(r) /\ ~Refused(r)
    BY <2>2, <2>3 DEF Review, AfterReview
  <2>4. CASE Security(r) /\ ~Refused(r)
    BY <2>2, <2>4 DEF Security
  <2>5. CASE QA(r) /\ ~Refused(r)
    BY <2>2, <2>5 DEF QA
  <2> QED
    BY <1>9, <2>1, <2>3, <2>4, <2>5
<1>10. CASE Complete(r)
  <2>1. CASE Refused(r)
    BY <1>4, <1>10, <2>1 DEF Complete, At, Live
  <2>2. CASE CompleteRun(r) /\ Goto(r, "done")
    <3>1. Elsewhere(r)
      BY <1>1, <1>2, <2>2 DEF CompleteRun, Elsewhere, SameRun, SameTask
    <3>2. RunCompletes(r)
      BY <1>1, <1>2, <1>10, <2>2
      DEF Complete, At, CompleteRun, CanCompleteRun, RunCompletes, SameTask, RunRecords
    <3> QED
      BY <3>1, <3>2 DEF RunSteps
  <2> QED
    BY <1>10, <2>1, <2>2 DEF Complete
<1>11. CASE PersistFailure(r)
  <2>1. pc[r] \in Raised /\ pc'[r] = "done" /\ \A o \in Runs \ {r} : pc'[o] = pc[o]
    BY <1>2, <1>11 DEF PersistFailure
  <2>2. CASE HasEnded(r) \/ ~CanFailRun(r)
    <3>1. UNCHANGED projectVars
      BY <1>11, <2>2 DEF PersistFailure
    <3>2. run[r].state \notin {"running", "submitted", "integrating"}
      BY <2>2 DEF HasEnded, CanFailRun
    <3> QED
      BY <1>1, <1>3, <2>1, <3>1, <3>2 DEF projectVars, Elsewhere, RunSteps, RunLeaves
  <2>3. ASSUME NEW outcome \in {"blocked", "failed"}, FailRun(r, outcome)
        PROVE  Elsewhere(r) /\ RunFails(r)
    BY <1>1, <2>1, <2>3 DEF FailRun, Elsewhere, SameRun, SameTask, RunFails, RunRecords, TaskRecords
  <2> QED
    BY <1>11, <2>2, <2>3 DEF PersistFailure, RunSteps
<1> QED
  BY <1>5, <1>6, <1>7, <1>8, <1>9, <1>10, <1>11 DEF PipelineStep

(***************************************************************************)
(* What everybody else does to a run and a task.                           *)
(***************************************************************************)
SamePlaces == \A r \in Runs : pc'[r] = pc[r]
SameRuns == \A r \in Runs : SameRun(r)
SameTasks == \A t \in Tasks : SameTask(t)

PipelineStarts(r) ==
    /\ SameRuns /\ SameTasks /\ \A o \in Runs \ {r} : pc'[o] = pc[o]
    /\ pc[r] = "idle" /\ pc'[r] = "begin" /\ task[TaskOf[r]].state = "active"
    /\ \A o \in Runs : TaskOf[o] = TaskOf[r] => ~Live(o)

PipelineStops(r) == Elsewhere(r) /\ RunRaises(r)

\* The integration of r, without a failure.
RunMoves(r) ==
    /\ SamePlaces /\ Elsewhere(r)
    /\ run[r].state \in Waiting
    /\ \/ /\ run'[r].state \in Waiting
          /\ task'[TaskOf[r]].state = task[TaskOf[r]].state
          /\ task'[TaskOf[r]].runId = task[TaskOf[r]].runId
          /\ \/ run'[r].impl = run[r].impl /\ task'[TaskOf[r]].impl = task[TaskOf[r]].impl
             \/ run'[r].impl = task'[TaskOf[r]].impl
       \/ /\ run'[r].state = "integrated" /\ task'[TaskOf[r]].state = "integrated"
          /\ task'[TaskOf[r]].runId = task[TaskOf[r]].runId

\* Its failure, or the run is closed by the operator.
RunIsClosed(r) ==
    /\ SamePlaces /\ Elsewhere(r)
    /\ \/ run[r].state = "integrating"
       \/ /\ \A o \in Runs : ~Live(o)
          /\ \A o \in Runs \ {r} : TaskOf[o] = TaskOf[r] => run[o].state \notin Waiting
    /\ run[r].state # "none" /\ run'[r].state = "blocked" /\ task'[TaskOf[r]].state = "blocked"
    /\ task'[TaskOf[r]].runId = task[TaskOf[r]].runId

TaskOnly(t) == SamePlaces /\ SameRuns /\ \A u \in Tasks \ {t} : SameTask(u)

\* A task that no run was begun for, or that is blocked, is active or planned.
TaskOpens(t) ==
    /\ TaskOnly(t)
    /\ \/ task[t].state \in {"none", "pending", "cancelled"} /\ ~Assigned(t)
       \/ task[t].state \in {"none", "blocked"}
    /\ task'[t].state \in {"pending", "active"}
    /\ task'[t].runId \in {task[t].runId, NoRun}

TaskKeeps(t) ==
    /\ TaskOnly(t)
    /\ task'[t].runId = task[t].runId
    /\ \/ task'[t].state = "cancelled" /\ task'[t].impl = task[t].impl
       \/ SameTask(t)
       \/ t \in ManualTasks

OtherSteps ==
    \/ SamePlaces /\ SameRuns /\ SameTasks
    \/ \E r \in Runs : PipelineStarts(r) \/ PipelineStops(r) \/ RunMoves(r) \/ RunIsClosed(r)
    \/ \E t \in Tasks : TaskOpens(t) \/ TaskKeeps(t)

LEMMA NothingMoves == UNCHANGED <<task, run, pc>> => SamePlaces /\ SameRuns /\ SameTasks
BY DEF SamePlaces, SameRuns, SameTasks, SameRun, SameTask

LEMMA IntegrationEffect ==
    ASSUME TypeOK,
           \/ \E r \in Runs : RecoverIntegration(r) \/ StartIntegration(r) \/ Reap(r)
           \/ BeginStep \/ RebaseStep \/ MergeStep
           \/ IntegrationFails \/ PersistIntegrationFailure \/ IntegrationCrash
    PROVE  OtherSteps
<1>1. /\ task \in [Tasks -> TaskRecords] /\ run \in [Runs -> RunRecords]
      /\ \A r \in Runs : TaskOf[r] \in Tasks /\ task[TaskOf[r]] \in TaskRecords /\ run[r] \in RunRecords
  BY OrchestratorAssumption DEF TypeOK, ProjectTypeOK
<1>2. CASE UNCHANGED <<task, run, pc>>
  BY <1>2, NothingMoves DEF OtherSteps
<1>3. ASSUME pc' = pc PROVE SamePlaces
  BY <1>3 DEF SamePlaces
<1>4. ASSUME NEW r \in Runs, ResetIntegration(r) \/ \E e : BeginIntegration(r, e), pc' = pc
      PROVE  RunMoves(r)
  <2>1. Elsewhere(r)
    BY <1>1, <1>4 DEF ResetIntegration, BeginIntegration, Elsewhere, SameRun, SameTask
  <2>2. /\ run[r].state \in Waiting /\ run'[r].state \in Waiting /\ run'[r].impl = run[r].impl
        /\ task' = task
    BY <1>1, <1>4
    DEF ResetIntegration, BeginIntegration, CanBeginIntegration, Waiting, RunRecords
  <2> QED
    BY <1>3, <1>4, <2>1, <2>2 DEF RunMoves
<1>5. ASSUME NEW r \in Runs, NEW old, NEW new, RecordRebase(r, old, new), pc' = pc
      PROVE  RunMoves(r)
  <2>1. Elsewhere(r)
    BY <1>1, <1>5 DEF RecordRebase, Elsewhere, SameRun, SameTask
  <2>2. /\ run[r].state = "integrating" /\ run'[r].state = run[r].state /\ run'[r].impl = <<r, new>>
    BY <1>1, <1>5 DEF RecordRebase, CanRecordRebase, RunRecords
  <2>3. /\ task'[TaskOf[r]].impl = <<r, new>>
        /\ task'[TaskOf[r]].state = task[TaskOf[r]].state
        /\ task'[TaskOf[r]].runId = task[TaskOf[r]].runId
    BY <1>1, <1>5 DEF RecordRebase, TaskRecords
  <2> QED
    BY <1>3, <1>5, <2>1, <2>2, <2>3 DEF RunMoves, Waiting
<1>6. ASSUME NEW r \in Runs, NEW previous, FinalizeIntegration(r, previous), pc' = pc
      PROVE  RunMoves(r)
  <2>1. Elsewhere(r)
    BY <1>1, <1>6 DEF FinalizeIntegration, Advance, Elsewhere, SameRun, SameTask
  <2>2. run[r].state = "integrating" /\ run'[r].state = "integrated"
    BY <1>1, <1>6 DEF FinalizeIntegration, CanFinalize, RunRecords
  <2>3. /\ task'[TaskOf[r]].state = "integrated"
        /\ task'[TaskOf[r]].runId = task[TaskOf[r]].runId
    BY <1>1, <1>6 DEF FinalizeIntegration, Advance, TaskRecords
  <2> QED
    BY <1>3, <1>6, <2>1, <2>2, <2>3 DEF RunMoves, Waiting
<1>7. ASSUME NEW r \in Runs, FailRun(r, "blocked"), pc' = pc,
             \/ run[r].state = "integrating"
             \/ /\ \A o \in Runs : ~Live(o)
                /\ \A o \in Runs \ {r} : TaskOf[o] = TaskOf[r] => run[o].state \notin Waiting
      PROVE  RunIsClosed(r)
  <2>1. Elsewhere(r)
    BY <1>1, <1>7 DEF FailRun, Elsewhere, SameRun, SameTask
  <2>2. run[r].state # "none" /\ run'[r].state = "blocked"
    BY <1>1, <1>7 DEF FailRun, CanFailRun, RunRecords
  <2>3. /\ task'[TaskOf[r]].state = "blocked"
        /\ task'[TaskOf[r]].runId = task[TaskOf[r]].runId
    BY <1>1, <1>7 DEF FailRun, TaskRecords
  <2> QED
    BY <1>3, <1>7, <2>1, <2>2, <2>3 DEF RunIsClosed
<1>8. ASSUME integrator.place # "idle" PROVE integrator.run \in Runs
  BY <1>8, IntegratorType
<1>9. ASSUME NEW r \in Runs, RecoverIntegration(r) \/ StartIntegration(r)
      PROVE  OtherSteps
  BY <1>2, <1>4, <1>9 DEF RecoverIntegration, StartIntegration, Integrating, projectVars, OtherSteps
<1>10. ASSUME NEW r \in Runs, Reap(r)
       PROVE  OtherSteps
  BY <1>7, <1>10 DEF Reap, Intervene, OtherSteps, OpenRun, Waiting
<1>11. CASE BeginStep
  BY <1>2, <1>4, <1>8, <1>11 DEF BeginStep, Integrating, projectVars, OtherSteps
<1>12. CASE RebaseStep
  BY <1>2, <1>5, <1>8, <1>12 DEF RebaseStep, Integrating, projectVars, OtherSteps
<1>13. CASE MergeStep
  BY <1>2, <1>6, <1>8, <1>13 DEF MergeStep, Integrating, projectVars, OtherSteps
<1>14. CASE IntegrationFails \/ IntegrationCrash
  BY <1>2, <1>14 DEF IntegrationFails, IntegrationCrash, Integrating, projectVars
<1>15. CASE PersistIntegrationFailure
  BY <1>2, <1>7, <1>8, <1>15 DEF PersistIntegrationFailure, Integrating, projectVars, OtherSteps
<1> QED
  BY <1>9, <1>10, <1>11, <1>12, <1>13, <1>14, <1>15

LEMMA OperatorEffect ==
    ASSUME TypeOK, Assignments,
           \/ \E t \in Tasks : Plan(t) \/ Cancel(t) \/ Reopen(t) \/ Rebase(t)
           \/ \E t \in ManualTasks : Manual(t)
           \/ NewCycle
    PROVE  OtherSteps
<1>1. task \in [Tasks -> TaskRecords] /\ \A t \in Tasks : task[t] \in TaskRecords
  BY DEF TypeOK, ProjectTypeOK
<1>2. ASSUME NEW t \in Tasks, run' = run, pc' = pc, \A u \in Tasks \ {t} : task'[u] = task[u]
      PROVE  TaskOnly(t)
  BY <1>2 DEF TaskOnly, SamePlaces, SameRuns, SameRun, SameTask
<1>3. ASSUME NEW t \in Tasks, Plan(t)
      PROVE  TaskOpens(t)
  <2>1. run' = run /\ pc' = pc /\ \A u \in Tasks \ {t} : task'[u] = task[u]
    BY <1>1, <1>3
    DEF Plan, CreateTask, StartAgent, ApproveSpawn, Activate, processVars
  <2>2. CASE CreateTask(t) \/ \E parent \in Tasks : ApproveSpawn(parent, t)
    <3>1. CASE CreateTask(t)
      <4>1. task[t].state = "none" /\ task'[t] = NewTask
        BY <1>1, <3>1 DEF CreateTask, Exists
      <4> QED
        BY <1>2, <2>1, <4>1 DEF NewTask, TaskOpens
    <3>2. ASSUME NEW parent \in Tasks, ApproveSpawn(parent, t)
          PROVE  TaskOpens(t)
      <4>1. task[t].state = "none" /\ task'[t] = [NewTask EXCEPT !.state = "active"]
        BY <1>1, <3>2 DEF ApproveSpawn, Exists
      <4> QED
        BY <1>2, <2>1, <4>1 DEF NewTask, TaskOpens
    <3> QED
      BY <2>2, <3>1, <3>2
  <2>3. CASE StartAgent(t)
    BY <1>1, <1>2, <2>1, <2>3
    DEF StartAgent, TaskOpens, Assignments, UnassignedIsIdle, TaskRecords
  <2> QED
    BY <1>3, <2>2, <2>3 DEF Plan
<1>4. ASSUME NEW t \in Tasks, Cancel(t)
      PROVE  TaskKeeps(t)
  <2>1. run' = run /\ pc' = pc /\ \A u \in Tasks \ {t} : task'[u] = task[u]
    BY <1>1, <1>4 DEF Cancel, CancelTask, Intervene
  <2> QED
    BY <1>1, <1>2, <1>4, <2>1 DEF Cancel, CancelTask, TaskKeeps, TaskRecords
<1>5. ASSUME NEW t \in Tasks, Reopen(t)
      PROVE  TaskOpens(t)
  <2>1. run' = run /\ pc' = pc /\ \A u \in Tasks \ {t} : task'[u] = task[u]
    BY <1>1, <1>5 DEF Reopen, ReopenTask, Intervene
  <2> QED
    BY <1>1, <1>2, <1>5, <2>1 DEF Reopen, ReopenTask, NewTask, TaskOpens
<1>6. ASSUME NEW t \in Tasks, Rebase(t)
      PROVE  TaskKeeps(t)
  <2>1. run' = run /\ pc' = pc /\ \A u \in Tasks \ {t} : task'[u] = task[u]
    BY <1>1, <1>6 DEF Rebase, RebaseTask, Intervene
  <2> QED
    BY <1>1, <1>2, <1>6, <2>1 DEF Rebase, RebaseTask, TaskKeeps, SameTask, TaskRecords
<1>7. ASSUME NEW t \in ManualTasks, Manual(t)
      PROVE  TaskKeeps(t)
  <2>0. t \in Tasks
    BY DEF ManualTasks
  <2>1. ASSUME Submit(t, NoRun) \/ AssignReviewer(t) \/ AssignQA(t) \/ IntegrateTask(t)
        PROVE  /\ run' = run /\ \A u \in Tasks \ {t} : task'[u] = task[u]
               /\ task'[t].runId = task[t].runId
    BY <1>1, <2>0, <2>1
    DEF Submit, AssignReviewer, AssignQA, IntegrateTask, Advance, TaskRecords
  <2>2. /\ run' = run /\ \A u \in Tasks \ {t} : task'[u] = task[u]
        /\ task'[t].runId = task[t].runId
    BY <1>7, <2>0, <2>1, GateOutcome DEF Manual, TypeOK
  <2> QED
    BY <1>2, <1>7, <2>0, <2>2 DEF Manual, processVars, TaskKeeps
<1>8. CASE NewCycle
  BY <1>8, NothingMoves DEF NewCycle, BeginCycle, Intervene, OtherSteps
<1> QED
  BY <1>3, <1>4, <1>5, <1>6, <1>7, <1>8 DEF OtherSteps, ManualTasks

LEMMA DevelopmentEffect ==
    ASSUME TypeOK, Assignments, [DevNext]_vars
    PROVE  OtherSteps \/ \E r \in Runs : Elsewhere(r) /\ RunSteps(r)
<1>0. pc \in [Runs -> Places]
  BY DEF TypeOK, ProcessTypeOK
<1>1. CASE UNCHANGED vars
  BY <1>1, NothingMoves DEF vars, projectVars, processVars, OtherSteps
<1>2. ASSUME NEW r \in Runs, StartPipeline(r)
      PROVE  PipelineStarts(r)
  <2>1. SameRuns /\ SameTasks
    BY <1>2 DEF StartPipeline, projectVars, SameRuns, SameTasks, SameRun, SameTask
  <2> QED
    BY <1>0, <1>2, <2>1 DEF StartPipeline, Goto, PipelineStarts
<1>3. ASSUME NEW r \in Runs, StageFails(r) \/ PipelineCrash(r)
      PROVE  PipelineStops(r)
  <2>1. /\ \A o \in Runs : SameRun(o)
        /\ \A u \in Tasks : SameTask(u)
    BY <1>3 DEF StageFails, PipelineCrash, projectVars, SameRun, SameTask
  <2> QED
    BY <1>0, <1>3, <2>1, OrchestratorAssumption
    DEF StageFails, PipelineCrash, Goto, PipelineStops, Elsewhere, RunRaises
<1>4. CASE DevNext
  BY <1>2, <1>3, <1>4, PipelineEffect, IntegrationEffect, OperatorEffect DEF DevNext, OtherSteps
<1> QED
  BY <1>1, <1>4

(***************************************************************************)
(* A step keeps the invariant if it keeps it for the one task it is about. *)
(***************************************************************************)
AwayFrom(t) ==
    /\ \A r \in Runs : TaskOf[r] # t => pc'[r] = pc[r] /\ SameRun(r)
    /\ \A u \in Tasks \ {t} : SameTask(u)

LEMMA AwayKeeps ==
    ASSUME TypeOK, PipeInv, NEW t \in Tasks, AwayFrom(t), NEW u \in Tasks, u # t
    PROVE  OnTask(u)'
<1>1. /\ \A r \in Runs : TaskOf[r] = u => pc'[r] = pc[r] /\ SameRun(r)
      /\ SameTask(u) /\ OnTask(u)
      /\ task[u].runId \in Runs \cup {NoRun} /\ NoRun \notin Runs
  BY OrchestratorAssumption DEF AwayFrom, PipeInv, TypeOK, ProjectTypeOK, TaskRecords
<1>2. \A r \in Runs : TaskOf[r] = u => (Live(r)' <=> Live(r))
  BY <1>1 DEF Live
<1>3. ASSUME NEW r \in Runs, TaskOf[r] = u
      PROVE  LiveRun(r)' /\ WaitingRun(r)' /\ ClosedRun(r)'
  <2>1. LiveRun(r) /\ WaitingRun(r) /\ ClosedRun(r)
    BY <1>1, <1>3 DEF OnTask
  <2>2. /\ pc'[r] = pc[r] /\ run'[r].state = run[r].state
        /\ task'[u].state = task[u].state /\ task'[u].runId = task[u].runId
        /\ Live(r)' <=> Live(r)
    BY <1>1, <1>2, <1>3 DEF SameRun, SameTask
  <2>3. LiveRun(r)'
    BY <1>3, <2>1, <2>2 DEF LiveRun
  <2>4. WaitingRun(r)'
    BY <1>2, <1>3, <2>1, <2>2 DEF WaitingRun
  <2>5. ClosedRun(r)'
    BY <2>1, <2>2 DEF ClosedRun
  <2> QED
    BY <2>3, <2>4, <2>5
<1>4. OnePipeline(u)'
  BY <1>1, <1>2 DEF OnTask, OnePipeline
<1>5. OwnRun(u)'
  BY <1>1 DEF OnTask, OwnRun, SameRun, SameTask
<1>6. Matches(u)'
  BY <1>1 DEF OnTask, OwnRun, Matches, SameRun, SameTask
<1> QED
  BY <1>3, <1>4, <1>5, <1>6 DEF OnTask

LEMMA OneTaskIsEnough ==
    ASSUME TypeOK, PipeInv, NEW t \in Tasks, AwayFrom(t), OnTask(t)'
    PROVE  PipeInv'
BY AwayKeeps DEF PipeInv

LEMMA RunIsAway ==
    ASSUME NEW r \in Runs, Elsewhere(r)
    PROVE  AwayFrom(TaskOf[r])
BY DEF Elsewhere, AwayFrom

\* While a pipeline of a task is alive no other one is, none of its runs waits
\* for the integration, and a task in review names the run of that pipeline.
LEMMA LiveIsAlone ==
    ASSUME TypeOK, PipeInv, NEW r \in Runs, Live(r)
    PROVE  /\ \A o \in Runs : TaskOf[o] = TaskOf[r] /\ o # r => ~Live(o)
           /\ \A o \in Runs : TaskOf[o] = TaskOf[r] => run[o].state \notin Waiting
           /\ LiveRun(r) /\ OwnRun(TaskOf[r])
           /\ pc[r] # "begin" /\ pc[r] \notin Raised /\ task[TaskOf[r]].state \in InReview
                 => task[TaskOf[r]].runId = r
<1>1. TaskOf[r] \in Tasks
  BY OrchestratorAssumption
<1>2. OnTask(TaskOf[r]) /\ LiveRun(r)
  BY <1>1 DEF PipeInv, OnTask
<1>3. \A o \in Runs : TaskOf[o] = TaskOf[r] /\ o # r => ~Live(o)
  BY <1>2 DEF OnTask, OnePipeline
<1>4. \A o \in Runs : TaskOf[o] = TaskOf[r] => run[o].state \notin Waiting
  BY <1>2 DEF OnTask, WaitingRun
<1>5. TaskOf[r] \notin ManualTasks
  BY DEF ManualTasks
<1>6. ASSUME pc[r] # "begin", pc[r] \notin Raised, task[TaskOf[r]].state \in InReview
      PROVE  task[TaskOf[r]].runId = r
  BY <1>2, <1>5, <1>6 DEF OnTask, OwnRun, LiveRun
<1> QED
  BY <1>2, <1>3, <1>4, <1>6 DEF OnTask

\* A step of the pipeline of r that leaves the other runs alone keeps what the
\* invariant says of them, and of the task as long as that names the same run
\* or r.
LEMMA RunStepKeeps ==
    ASSUME TypeOK, PipeInv, NEW r \in Runs, Live(r), Elsewhere(r),
           LiveRun(r)', WaitingRun(r)', ClosedRun(r)',
           OwnRun(TaskOf[r])', Matches(TaskOf[r])'
    PROVE  PipeInv'
<1> DEFINE t == TaskOf[r]
<1>1. t \in Tasks /\ AwayFrom(t) /\ OnTask(t)
  BY OrchestratorAssumption, RunIsAway DEF PipeInv
<1>2. \A o \in Runs : TaskOf[o] = t /\ o # r => ~Live(o) /\ ~Live(o)'
  BY LiveIsAlone DEF Elsewhere, Live
<1>3. ASSUME NEW o \in Runs, TaskOf[o] = t, o # r
      PROVE  LiveRun(o)' /\ WaitingRun(o)' /\ ClosedRun(o)'
  <2>1. /\ pc'[o] = pc[o] /\ run'[o].state = run[o].state
        /\ LiveRun(o) /\ ClosedRun(o) /\ run[o].state \notin Waiting
        /\ ~Live(o) /\ ~Live(o)'
    BY <1>1, <1>2, <1>3, LiveIsAlone DEF Elsewhere, SameRun, OnTask
  <2>2. pc[o] # "begin"
    BY <2>1 DEF Live
  <2> QED
    BY <2>1, <2>2 DEF LiveRun, WaitingRun, ClosedRun
<1>4. OnePipeline(t)'
  BY <1>2 DEF OnePipeline
<1>5. OnTask(t)'
  BY <1>3, <1>4 DEF OnTask
<1> QED
  BY <1>1, <1>5, OneTaskIsEnough

LEMMA RunStepsKeep ==
    ASSUME TypeOK, PipeInv, NEW r \in Runs, Elsewhere(r), RunSteps(r)
    PROVE  PipeInv'
<1> DEFINE t == TaskOf[r]
<1>0. Live(r)
  BY DEF RunSteps, RunBegins, RunRaises, RunWorks, RunSubmits, RunDecides, RunCompletes,
         RunFails, RunLeaves, Live, Raised
<1>1. /\ LiveRun(r) /\ OwnRun(t) /\ run[r].state \notin Waiting
      /\ \A o \in Runs : TaskOf[o] = t /\ o # r => ~Live(o) /\ ~Live(o)'
      /\ pc[r] # "begin" /\ pc[r] \notin Raised /\ task[t].state \in InReview
            => task[t].runId = r
  BY <1>0, LiveIsAlone DEF Elsewhere, Live
<1>2. /\ t \in Tasks \ ManualTasks /\ r # NoRun /\ OnTask(t) /\ t = TaskOf[r]
      /\ \A o \in Runs \ {r} : pc'[o] = pc[o] /\ SameRun(o)
      /\ task[t].runId \in Runs \cup {NoRun}
  BY OrchestratorAssumption
  DEF PipeInv, ManualTasks, TypeOK, ProjectTypeOK, TaskRecords, Elsewhere
<1>3. Matches(t) /\ ClosedRun(r)
  BY <1>2 DEF OnTask
<1> HIDE DEF t
<1>4. CASE RunBegins(r)
  <2>1. LiveRun(r)' /\ WaitingRun(r)' /\ ClosedRun(r)'
    BY <1>2, <1>4 DEF RunBegins, LiveRun, WaitingRun, ClosedRun, Raised, Waiting
  <2>2. OwnRun(t)' /\ Matches(t)'
    BY <1>2, <1>4 DEF RunBegins, OwnRun, Matches
  <2> QED
    BY <1>0, <1>2, <2>1, <2>2, RunStepKeeps
<1>5. CASE RunRaises(r)
  <2>1. LiveRun(r)' /\ WaitingRun(r)' /\ ClosedRun(r)'
    BY <1>1, <1>2, <1>5
    DEF RunRaises, LiveRun, WaitingRun, ClosedRun, Raised, Waiting, SameRun, SameTask, Live
  <2>2. /\ task'[t].state = task[t].state /\ task'[t].runId = task[t].runId
        /\ task'[t].impl = task[t].impl /\ pc'[r] # "done"
        /\ run[r].state # "none" => run'[r].state # "none"
    BY <1>2, <1>5 DEF RunRaises, SameRun, SameTask, Raised
  <2>3. OwnRun(t)'
    BY <1>1, <1>2, <2>2 DEF OwnRun, SameRun
  <2>4. Matches(t)'
    BY <1>1, <1>2, <1>3, <2>2 DEF Matches, SameRun
  <2> QED
    BY <1>0, <1>2, <2>1, <2>3, <2>4, RunStepKeeps
<1>6. CASE RunWorks(r)
  <2>1. LiveRun(r)' /\ WaitingRun(r)' /\ ClosedRun(r)'
    BY <1>1, <1>2, <1>6
    DEF RunWorks, LiveRun, WaitingRun, ClosedRun, Raised, Waiting, SameTask, Live
  <2>2. /\ task'[t].state = task[t].state /\ task'[t].runId = task[t].runId
        /\ task'[t].impl = task[t].impl /\ pc'[r] # "done"
        /\ run[r].state # "none" => run'[r].state # "none"
    BY <1>2, <1>6 DEF RunWorks, SameRun, SameTask, Raised
  <2>3. OwnRun(t)'
    BY <1>1, <1>2, <2>2 DEF OwnRun, SameRun
  <2>4. Matches(t)'
    BY <1>1, <1>2, <1>3, <2>2 DEF Matches, SameRun
  <2> QED
    BY <1>0, <1>2, <2>1, <2>3, <2>4, RunStepKeeps
<1>7. CASE RunSubmits(r)
  <2>1. LiveRun(r)' /\ WaitingRun(r)' /\ ClosedRun(r)'
    BY <1>1, <1>2, <1>7
    DEF RunSubmits, LiveRun, WaitingRun, ClosedRun, Raised, Waiting, SameRun, Live
  <2>2. OwnRun(t)' /\ Matches(t)'
    BY <1>0, <1>1, <1>2, <1>7
    DEF RunSubmits, LiveRun, OwnRun, Matches, SameRun, Raised
  <2> QED
    BY <1>0, <1>2, <2>1, <2>2, RunStepKeeps
<1>8. CASE RunDecides(r)
  <2>0. task[t].runId = r
    BY <1>1, <1>2, <1>8 DEF RunDecides, InReview, Raised
  <2>1. LiveRun(r)' /\ WaitingRun(r)' /\ ClosedRun(r)'
    BY <1>1, <1>2, <1>8, <2>0
    DEF RunDecides, LiveRun, WaitingRun, ClosedRun, Raised, Waiting, SameRun, Live
  <2>2. OwnRun(t)' /\ Matches(t)'
    BY <1>1, <1>2, <1>8, <2>0 DEF RunDecides, OwnRun, Matches, SameRun, Raised
  <2> QED
    BY <1>0, <1>2, <2>1, <2>2, RunStepKeeps
<1>9. CASE RunCompletes(r)
  <2>0. task[t].runId = r
    BY <1>1, <1>2, <1>9 DEF RunCompletes, InReview, Raised
  <2>1. ~Live(r)'
    BY <1>9 DEF RunCompletes, Live
  <2>2. LiveRun(r)' /\ ClosedRun(r)'
    BY <1>9, <2>1 DEF RunCompletes, LiveRun, ClosedRun
  <2>3. WaitingRun(r)'
    BY <1>1, <1>2, <1>9, <2>0, <2>1 DEF RunCompletes, WaitingRun, SameTask
  <2>4. OwnRun(t)' /\ Matches(t)'
    BY <1>2, <1>9, <2>0 DEF RunCompletes, OwnRun, Matches, SameTask, Waiting
  <2> QED
    BY <1>0, <1>2, <2>2, <2>3, <2>4, RunStepKeeps
<1>10. CASE RunFails(r)
  <2>1. LiveRun(r)' /\ WaitingRun(r)' /\ ClosedRun(r)'
    BY <1>2, <1>10 DEF RunFails, LiveRun, WaitingRun, ClosedRun, Waiting, Live
  <2>2. OwnRun(t)' /\ Matches(t)'
    BY <1>1, <1>2, <1>10 DEF RunFails, OwnRun, Matches, SameRun, InReview
  <2> QED
    BY <1>0, <1>2, <2>1, <2>2, RunStepKeeps
<1>11. CASE RunLeaves(r)
  <2>0. run[r].state = "none"
    BY <1>0, <1>1, <1>11 DEF RunLeaves, LiveRun
  <2>1. LiveRun(r)' /\ WaitingRun(r)' /\ ClosedRun(r)'
    BY <1>2, <1>11, <2>0
    DEF RunLeaves, LiveRun, WaitingRun, ClosedRun, Waiting, Live, SameRun
  <2>2. OwnRun(t)' /\ Matches(t)'
    BY <1>1, <1>2, <1>3, <1>11, <2>0 DEF RunLeaves, OwnRun, Matches, SameRun, SameTask
  <2> QED
    BY <1>0, <1>2, <2>1, <2>2, RunStepKeeps
<1> QED
  BY <1>4, <1>5, <1>6, <1>7, <1>8, <1>9, <1>10, <1>11 DEF RunSteps

\* The facts a step of somebody else relies on, and what it leaves alone.
LEMMA RunStartsOrStops ==
    ASSUME TypeOK, PipeInv, NEW r \in Runs, PipelineStarts(r) \/ PipelineStops(r)
    PROVE  PipeInv'
<1> DEFINE t == TaskOf[r]
<1>1. CASE PipelineStops(r)
  BY <1>1, RunStepsKeep DEF PipelineStops, RunSteps
<1>2. CASE PipelineStarts(r)
  <2>1. /\ t \in Tasks /\ OnTask(t) /\ t = TaskOf[r] /\ r # NoRun
        /\ run[r].state = "none" /\ task[t].state = "active"
        /\ \A o \in Runs : SameRun(o)
        /\ \A u \in Tasks : SameTask(u)
        /\ \A o \in Runs \ {r} : pc'[o] = pc[o]
        /\ pc'[r] = "begin"
        /\ \A o \in Runs : TaskOf[o] = t => ~Live(o)
    BY <1>2, OrchestratorAssumption
    DEF PipelineStarts, SameRuns, SameTasks, PipeInv, OnTask, LiveRun
  <2> HIDE DEF t
  <2>2. AwayFrom(t)
    BY <2>1 DEF AwayFrom
  <2>3. \A o \in Runs : TaskOf[o] = t => run[o].state \notin Waiting /\ LiveRun(o) /\ ClosedRun(o)
    BY <2>1 DEF OnTask, WaitingRun
  <2>4. ASSUME NEW o \in Runs, TaskOf[o] = t
        PROVE  LiveRun(o)' /\ WaitingRun(o)' /\ ClosedRun(o)'
    <3>1. run'[o].state = run[o].state /\ run[o].state \notin Waiting
      BY <2>1, <2>3, <2>4 DEF SameRun
    <3>2. CASE o = r
      BY <2>1, <3>1, <3>2 DEF LiveRun, WaitingRun, ClosedRun, Waiting
    <3>3. CASE o # r
      <4>1. pc'[o] = pc[o] /\ pc[o] \in {"idle", "done", "dead"}
        BY <2>1, <2>4, <3>3 DEF Live
      <4> QED
        BY <2>3, <2>4, <3>1, <4>1 DEF LiveRun, WaitingRun, ClosedRun, Live
    <3> QED
      BY <3>2, <3>3
  <2>5. OnePipeline(t)'
    BY <2>1 DEF OnePipeline, Live
  <2>6. OwnRun(t)'
    <3>1. /\ task'[t].runId = task[t].runId /\ task'[t].state \notin InReview
          /\ \A o \in Runs : run'[o].state = run[o].state
          /\ task[t].runId \in Runs \cup {NoRun}
      BY <2>1 DEF SameTask, SameRun, InReview, TypeOK, ProjectTypeOK, TaskRecords
    <3> QED
      BY <2>1, <3>1 DEF OnTask, OwnRun
  <2>7. Matches(t)'
    BY <2>1 DEF Matches, SameTask
  <2> QED
    BY <2>1, <2>2, <2>4, <2>5, <2>6, <2>7, OneTaskIsEnough DEF OnTask
<1> QED
  BY <1>1, <1>2

\* What keeps the places of the pipelines keeps the part about them.
LEMMA SamePlacesKeep ==
    ASSUME TypeOK, PipeInv, NEW t \in Tasks, SamePlaces, AwayFrom(t),
           \A r \in Runs : TaskOf[r] = t => LiveRun(r)' /\ WaitingRun(r)' /\ ClosedRun(r)',
           OwnRun(t)', Matches(t)'
    PROVE  PipeInv'
<1>1. OnePipeline(t)'
  BY DEF PipeInv, OnTask, OnePipeline, SamePlaces, Live
<1> QED
  BY <1>1, OneTaskIsEnough DEF OnTask

LEMMA RunMovesKeeps ==
    ASSUME TypeOK, PipeInv, NEW r \in Runs, RunMoves(r)
    PROVE  PipeInv'
<1> DEFINE t == TaskOf[r]
<1>1. /\ t \in Tasks /\ AwayFrom(t) /\ OnTask(t) /\ t = TaskOf[r] /\ r # NoRun
      /\ \A o \in Runs : pc'[o] = pc[o]
      /\ \A o \in Runs \ {r} : SameRun(o)
      /\ run[r].state \in Waiting
  BY OrchestratorAssumption, RunIsAway DEF PipeInv, RunMoves, Elsewhere, SamePlaces
<1>2. /\ task[t].runId = r /\ pc[r] = "done" /\ task[t].state \in {"ready_to_integrate", "cancelled"}
      /\ \A o \in Runs : TaskOf[o] = t => ~Live(o) /\ ~Live(o)'
      /\ \A o \in Runs : TaskOf[o] = t /\ o # r => run[o].state \notin Waiting
      /\ \A o \in Runs : TaskOf[o] = t => LiveRun(o) /\ ClosedRun(o)
  BY <1>1 DEF OnTask, WaitingRun, Live
<1>3. /\ task'[t].runId = task[t].runId
      /\ \/ /\ run'[r].state \in Waiting /\ task'[t].state = task[t].state
            /\ \/ run'[r].impl = run[r].impl /\ task'[t].impl = task[t].impl
               \/ run'[r].impl = task'[t].impl
         \/ run'[r].state = "integrated" /\ task'[t].state = "integrated"
  BY DEF RunMoves
<1>4. Matches(t)
  BY <1>1 DEF OnTask
<1> HIDE DEF t
<1>5. ASSUME NEW o \in Runs, TaskOf[o] = t
      PROVE  LiveRun(o)' /\ WaitingRun(o)' /\ ClosedRun(o)'
  <2>1. CASE o = r
    <3>1. LiveRun(o)' /\ ClosedRun(o)'
      BY <1>1, <1>2, <1>3, <2>1 DEF LiveRun, ClosedRun, Waiting
    <3>2. WaitingRun(o)'
      BY <1>1, <1>2, <1>3, <2>1 DEF WaitingRun, Waiting
    <3> QED
      BY <3>1, <3>2
  <2>2. CASE o # r
    <3>1. pc'[o] = pc[o] /\ run'[o].state = run[o].state /\ run[o].state \notin Waiting
      BY <1>1, <1>2, <1>5, <2>2 DEF SameRun
    <3> QED
      BY <1>2, <1>5, <3>1 DEF LiveRun, WaitingRun, ClosedRun, Live
  <2> QED
    BY <2>1, <2>2
<1>6. OwnRun(t)'
  BY <1>1, <1>2, <1>3 DEF OwnRun, Waiting
<1>7. Matches(t)'
  BY <1>1, <1>2, <1>3, <1>4 DEF Matches
<1> QED
  BY <1>1, <1>5, <1>6, <1>7, SamePlacesKeep DEF RunMoves

LEMMA RunIsClosedKeeps ==
    ASSUME TypeOK, PipeInv, NEW r \in Runs, RunIsClosed(r)
    PROVE  PipeInv'
<1> DEFINE t == TaskOf[r]
<1>1. /\ t \in Tasks /\ AwayFrom(t) /\ OnTask(t) /\ t = TaskOf[r] /\ r # NoRun
      /\ \A o \in Runs : pc'[o] = pc[o]
      /\ \A o \in Runs \ {r} : SameRun(o)
      /\ run'[r].state = "blocked" /\ task'[t].state = "blocked"
      /\ task'[t].runId = task[t].runId
      /\ task[t].runId \in Runs \cup {NoRun}
  BY OrchestratorAssumption, RunIsAway
  DEF PipeInv, RunIsClosed, Elsewhere, SamePlaces, TypeOK, ProjectTypeOK, TaskRecords
<1>2. /\ \A o \in Runs : TaskOf[o] = t => ~Live(o)
      /\ \A o \in Runs \ {r} : TaskOf[o] = t => run[o].state \notin Waiting
  <2>1. CASE run[r].state = "integrating"
    BY <1>1, <2>1 DEF OnTask, WaitingRun, Waiting
  <2> QED
    BY <2>1 DEF RunIsClosed
<1>3. \A o \in Runs : TaskOf[o] = t => LiveRun(o) /\ ClosedRun(o)
  BY <1>1 DEF OnTask
<1> HIDE DEF t
<1>5. ASSUME NEW o \in Runs, TaskOf[o] = t
      PROVE  LiveRun(o)' /\ WaitingRun(o)' /\ ClosedRun(o)'
  <2>0. ~Live(o) /\ ~Live(o)' /\ pc'[o] = pc[o]
    BY <1>1, <1>2, <1>5 DEF Live
  <2>1. CASE o = r
    <3>1. pc[o] \notin {"idle", "begin"}
      <4>1. run[r].state # "none"
        BY DEF RunIsClosed
      <4> QED
        BY <1>3, <1>5, <2>1, <4>1 DEF LiveRun
    <3> QED
      BY <1>1, <2>0, <2>1, <3>1 DEF LiveRun, ClosedRun, WaitingRun, Waiting
  <2>2. CASE o # r
    <3>1. run'[o].state = run[o].state /\ run[o].state \notin Waiting
      BY <1>1, <1>2, <1>5, <2>2 DEF SameRun
    <3> QED
      BY <1>3, <1>5, <2>0, <3>1 DEF LiveRun, WaitingRun, ClosedRun
  <2> QED
    BY <2>1, <2>2
<1>6. OwnRun(t)'
  BY <1>1 DEF OnTask, OwnRun, InReview, SameRun
<1>7. Matches(t)'
  BY <1>1 DEF Matches
<1> QED
  BY <1>1, <1>5, <1>6, <1>7, SamePlacesKeep DEF RunIsClosed

LEMMA TaskStepsKeep ==
    ASSUME TypeOK, Assignments, PipeInv, NEW t \in Tasks, TaskOpens(t) \/ TaskKeeps(t)
    PROVE  PipeInv'
<1>1. /\ AwayFrom(t) /\ SamePlaces /\ OnTask(t)
      /\ \A o \in Runs : pc'[o] = pc[o] /\ SameRun(o)
      /\ task[t].runId \in Runs \cup {NoRun} /\ NoRun \notin Runs
      /\ task'[t].runId \in {task[t].runId, NoRun}
  BY OrchestratorAssumption
  DEF PipeInv, TaskOpens, TaskKeeps, TaskOnly, AwayFrom, SamePlaces, SameRuns,
      TypeOK, ProjectTypeOK, TaskRecords
<1>2. \A o \in Runs : TaskOf[o] = t => LiveRun(o) /\ WaitingRun(o) /\ ClosedRun(o)
  BY <1>1 DEF OnTask
<1>3. OwnRun(t) /\ Matches(t)
  BY <1>1 DEF OnTask
<1>4. ASSUME NEW o \in Runs, TaskOf[o] = t
      PROVE  LiveRun(o)' /\ ClosedRun(o)'
  BY <1>1, <1>2, <1>4 DEF LiveRun, ClosedRun, SameRun, Live
<1>5. ASSUME NEW o \in Runs, TaskOf[o] = t
      PROVE  WaitingRun(o)'
  <2> SUFFICES ASSUME run[o].state \in Waiting PROVE WaitingRun(o)'
    BY <1>1 DEF WaitingRun, SameRun
  <2>1. /\ task[t].state \in {"ready_to_integrate", "cancelled"}
        /\ task[t].runId = o /\ pc[o] = "done"
        /\ \A other \in Runs : TaskOf[other] = t => ~Live(other) /\ ~Live(other)'
    BY <1>1, <1>2, <1>5 DEF WaitingRun, Live
  <2>2. Assigned(t)
    BY <1>5 DEF Assignments, BegunIsAssigned, Waiting
  <2>3. TaskKeeps(t) /\ t \notin ManualTasks
    BY <1>5, <2>1, <2>2 DEF TaskOpens, ManualTasks
  <2> QED
    BY <1>1, <1>5, <2>1, <2>3 DEF TaskKeeps, SameTask, WaitingRun
<1>6. OwnRun(t)'
  BY <1>1, <1>3 DEF OwnRun, TaskOpens, TaskKeeps, SameTask, SameRun, InReview
<1>7. Matches(t)'
  <2>1. CASE t \in ManualTasks
    BY <1>1, <1>3, <2>1 DEF OwnRun, Matches, ManualTasks
  <2>2. CASE t \notin ManualTasks
    BY <1>1, <1>3, <2>2 DEF Matches, TaskOpens, TaskKeeps, SameTask, SameRun
  <2> QED
    BY <2>1, <2>2
<1> QED
  BY <1>1, <1>4, <1>5, <1>6, <1>7, SamePlacesKeep

LEMMA PipeStep ==
    ASSUME TypeOK, Assignments, PipeInv, [DevNext]_vars
    PROVE  PipeInv'
<1>1. CASE SamePlaces /\ SameRuns /\ SameTasks
  <2>1. ASSUME NEW t \in Tasks PROVE OnTask(t)'
    <3>1. TaskKeeps(t)
      BY <1>1 DEF TaskKeeps, TaskOnly, SameTasks, SameTask
    <3> QED
      BY <3>1, TaskStepsKeep DEF PipeInv
  <2> QED
    BY <2>1 DEF PipeInv
<1>2. CASE \E r \in Runs : Elsewhere(r) /\ RunSteps(r)
  BY <1>2, RunStepsKeep
<1>3. CASE \E r \in Runs : PipelineStarts(r) \/ PipelineStops(r) \/ RunMoves(r) \/ RunIsClosed(r)
  BY <1>3, RunStartsOrStops, RunMovesKeeps, RunIsClosedKeeps
<1>4. CASE \E t \in Tasks : TaskOpens(t) \/ TaskKeeps(t)
  BY <1>4, TaskStepsKeep
<1> QED
  BY <1>1, <1>2, <1>3, <1>4, DevelopmentEffect DEF OtherSteps

LEMMA PipeInit == DevInit => PipeInv
<1> SUFFICES ASSUME DevInit, NEW t \in Tasks PROVE OnTask(t)
  BY DEF PipeInv
<1>1. /\ task[t].state = "none" /\ task[t].runId = NoRun
      /\ \A r \in Runs : run[r].state = "none" /\ pc[r] = "idle" /\ ~Live(r)
  BY DEF DevInit, ProjectInit, NewTask, Live
<1> QED
  BY <1>1 DEF OnTask, LiveRun, WaitingRun, ClosedRun, OnePipeline, OwnRun, Matches, InReview,
              Waiting

THEOREM PipelinesAreRight == DevSpec => []PipeInv
<1>1. DevSpec => []Assignments
  BY DevelopmentImplements, AssignmentsCorrect, PTL
<1> QED
  BY <1>1, TypeCorrect, PipeInit, PipeStep, PTL DEF DevSpec

\* A pipeline that has ended leaves its run open to nobody: whatever failed,
\* and whatever the operator did to its task meanwhile.
THEOREM EndedPipelinesCloseTheirRuns == DevSpec => []EndedPipelineClosesRun
<1>1. PipeInv => EndedPipelineClosesRun
  BY OrchestratorAssumption DEF PipeInv, OnTask, ClosedRun, EndedPipelineClosesRun
<1> QED
  BY <1>1, PipelinesAreRight, PTL

\* A task that is ready, whose pipeline has ended, agrees with its run on the
\* commit, and the run waits for its integration or is in it.
THEOREM ReadyTasksAreIntegrable == DevSpec => []ReadyIsIntegrable
<1>1. PipeInv => ReadyIsIntegrable
  BY DEF PipeInv, OnTask, Matches, Waiting, ReadyIsIntegrable
<1> QED
  BY <1>1, PipelinesAreRight, PTL
=============================================================================
