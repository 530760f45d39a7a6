------------------------------ MODULE AgentLoop ------------------------------
(***************************************************************************)
(* One run of the agent loop (TankAI.run in core/loop.py): the planner     *)
(* makes a plan and the critic reviews it, specialists execute the steps,  *)
(* one after another or each in a thread, the critic judges every result,  *)
(* the synthesizer writes the answer and the critic judges that.  All of   *)
(* them draw on one budget of model calls (LLMCallBudget in core/llm.py).  *)
(* What a model answers is arbitrary; a call may also fail, be refused by  *)
(* the provider's rate limit or find the budget used up.                   *)
(***************************************************************************)
EXTENDS Naturals, FiniteSets

CONSTANTS
    Budgets,        \* the max_llm_calls_per_run instances are configured with
    MaxRetries,     \* max_retries, for plans and for steps
    MaxSteps,       \* bound: the longest plan (the code allows 5)
    Sources,        \* the sources a web search can find
    Invented        \* a source id that no search has returned

ASSUME LoopAssumption ==
    /\ Budgets \cup {MaxRetries, MaxSteps} \subseteq Nat /\ MaxSteps > 0
    /\ IsFiniteSet(Sources) /\ Invented \notin Sources

VARIABLES
    mode,           \* how the instance was configured, see Modes
    stage,          \* where the run is
    plan,           \* the plan in force: its number, steps, and which of them research
    approved,       \* plan_critique.passed
    steps,          \* what has become of every step of the plan
    used,           \* LLMCallBudget._used
    starved,        \* a call was refused because the budget was used up
    answer,         \* the sources the final answer cites
    passed,         \* final_critique.passed, after the gates
    memory,         \* the entries this run has added to Memory
    longTerm,       \* what this run has left in the long-term memory
    result,         \* the RunResult, [status |-> "none"] without one
    recorded        \* the run store has a line of the run

loopVars == <<mode, stage, plan, approved, steps, used, starved, answer, passed, memory,
              longTerm, result, recorded>>

-----------------------------------------------------------------------------
(* Configuration. *)

\* parallel; verified_single_step; neither model simulated; with a long-term memory; the budget
Modes == [parallel : BOOLEAN, single : BOOLEAN, live : BOOLEAN, ltm : BOOLEAN, calls : Budgets]

\* verified_single_step is refused with retries, and with fewer than five calls.
Retries == IF mode.single THEN 0 ELSE MaxRetries
Allowed(m) == m.single => m.calls >= 5

StepNumbers == 1..MaxSteps
Cited == Sources \cup {Invented}

\* _parse_plan: a malformed answer gives a plan without steps, never invented ones, and
\* with verified_single_step one of more than one step is malformed.
NoPlan == [version |-> 0, size |-> 0, research |-> {}]
PlanOf(version) ==
    {[version |-> version, size |-> n, research |-> R] :
        n \in 0..(IF mode.single THEN 1 ELSE MaxSteps), R \in SUBSET StepNumbers}
WellFormed(p) == p.research \subseteq 1..p.size

Executable == plan.size > 0
InParallel == mode.parallel /\ plan.size > 1

\* A step that waits for its specialist, or for its next try.
Untried(tries, seen) ==
    [phase |-> "waiting", tries |-> tries, got |-> {}, error |-> FALSE, cites |-> {},
     seen |-> seen]

-----------------------------------------------------------------------------
(* Model calls (LLMCallBudget.consume, BudgetedLLM.complete): the budget   *)
(* is looked at before the provider's rate limit and counts only calls     *)
(* that neither refused.                                                   *)

Outcomes == {"answered", "failed", "limited", "starved"}

Call(outcome) ==
    CASE outcome = "starved" -> used = mode.calls /\ starved' = TRUE /\ UNCHANGED used
      [] outcome = "limited" -> used < mode.calls /\ UNCHANGED <<used, starved>>
      [] OTHER               -> used < mode.calls /\ used' = used + 1 /\ UNCHANGED starved

\* An exception that leaves run(): there is no result and no line in the run store.
Abort ==
    /\ stage' = "aborted"
    /\ UNCHANGED <<mode, plan, approved, steps, answer, passed, memory, longTerm, result,
                   recorded>>

\* A call on which the run depends.
CallOrAbort == \E outcome \in Outcomes \ {"answered"} : Call(outcome) /\ Abort

-----------------------------------------------------------------------------
(* Planning. *)

MakePlan ==
    /\ stage = "plan"
    /\ \/ CallOrAbort
       \/ /\ Call("answered")
          /\ plan' \in {p \in PlanOf(plan.version + 1) : WellFormed(p)}
          /\ steps' = [i \in StepNumbers |-> Untried(0, {})]
          /\ stage' = "review"
          /\ UNCHANGED <<mode, approved, answer, passed, memory, longTerm, result, recorded>>

\* _review_plan: a plan without steps is rejected without asking the critic.
ReviewPlan ==
    /\ stage = "review"
    /\ \/ Executable /\ CallOrAbort
       \/ /\ \/ Executable /\ Call("answered") /\ approved' \in BOOLEAN
             \/ ~Executable /\ approved' = FALSE /\ UNCHANGED <<used, starved>>
          /\ stage' = IF approved' THEN "steps"
                      ELSE IF plan.version <= Retries THEN "plan" ELSE "rejected"
          /\ UNCHANGED <<mode, plan, steps, answer, passed, memory, longTerm, result, recorded>>

\* _reject_plan: the rejection is the result; the episode is kept for diagnosis.
RejectPlan ==
    /\ stage = "rejected"
    /\ result' = [status |-> IF mode.live THEN "failed" ELSE "simulated", release |-> FALSE]
    /\ recorded' \in BOOLEAN      \* a line that cannot be written is only reported
    /\ longTerm' = [longTerm EXCEPT !.episode = IF mode.ltm THEN "unknown" ELSE @]
    /\ stage' = "ended"
    /\ UNCHANGED <<mode, plan, approved, steps, used, starved, answer, passed, memory>>

-----------------------------------------------------------------------------
(* The steps of the plan (_execute_and_critique, _run_steps_parallel).     *)

Ended(i) == steps[i].phase \in {"ok", "failed"}

\* A thread each, or the first step that has not ended.
Turn(i) ==
    /\ i \in 1..plan.size /\ ~Ended(i)
    /\ InParallel \/ \A j \in 1..(i - 1) : Ended(j)

Remembered(i) ==
    [what |-> i, validity |-> IF steps[i].phase = "ok" THEN "valid" ELSE "invalid"]

\* A result has passed, is to be tried again or has failed for good; then its entry goes to
\* the memory, in a parallel run when all threads have ended.
Judge(i, ok, seen) ==
    /\ steps' = [steps EXCEPT ![i] =
            IF ok THEN [@ EXCEPT !.phase = "ok", !.seen = seen]
            ELSE IF @.tries < Retries THEN Untried(@.tries + 1, seen)
            ELSE [Untried(@.tries, seen) EXCEPT !.phase = "failed"]]
    /\ memory' = IF InParallel \/ ~Ended(i)' THEN memory ELSE memory \cup {Remembered(i)'}
    /\ UNCHANGED stage

\* The rate limit ends a sequential run; in a thread it is a failure like any other, but
\* without another try and without the receipts of the earlier ones.
RateLimited(i) ==
    /\ Call("limited")
    /\ \/ ~InParallel /\ stage' = "aborted" /\ UNCHANGED <<steps, memory>>
       \/ /\ InParallel /\ UNCHANGED <<stage, memory>>
          /\ steps' = [steps EXCEPT ![i] = [Untried(@.tries, {}) EXCEPT !.phase = "failed"]]

\* Specialist.run: a research step searches the web before it asks the model.
ExecuteStep(i) ==
    /\ stage = "steps" /\ Turn(i) /\ steps[i].phase = "waiting"
    /\ \/ RateLimited(i)
       \/ \E outcome \in {"failed", "starved"} : Call(outcome) /\ Judge(i, FALSE, steps[i].seen)
       \/ /\ Call("answered")
          /\ \E got \in SUBSET Sources, error \in BOOLEAN, cites \in SUBSET Cited :
                /\ i \notin plan.research => got = {} /\ ~error /\ cites = {}
                /\ steps' = [steps EXCEPT ![i] =
                      [phase |-> "answered", tries |-> @.tries, got |-> got, error |-> error,
                       cites |-> cites, seen |-> @.seen \cup got]]
          /\ UNCHANGED <<stage, memory>>
    /\ UNCHANGED <<mode, plan, approved, answer, passed, longTerm, result, recorded>>

\* _apply_step_research_gate: sources were found without an error, and the text cites some
\* of them and nothing else.
Backed(cites, found) == cites # {} /\ cites \subseteq found
StepGate(i) ==
    i \in plan.research => ~steps[i].error /\ Backed(steps[i].cites, steps[i].got)

CritiqueStep(i) ==
    /\ stage = "steps" /\ Turn(i) /\ steps[i].phase = "answered"
    /\ \/ RateLimited(i)
       \/ \E outcome \in {"failed", "starved"} : Call(outcome) /\ Judge(i, FALSE, steps[i].seen)
       \/ /\ Call("answered")
          /\ \E verdict \in BOOLEAN : Judge(i, verdict /\ StepGate(i), steps[i].seen)
    /\ UNCHANGED <<mode, plan, approved, answer, passed, longTerm, result, recorded>>

StepsEnded ==
    /\ stage = "steps" /\ \A i \in 1..plan.size : Ended(i)
    /\ memory' = memory \cup {Remembered(i) : i \in 1..plan.size}
    /\ stage' = "synthesize"
    /\ UNCHANGED <<mode, plan, approved, steps, used, starved, answer, passed, longTerm,
                   result, recorded>>

-----------------------------------------------------------------------------
(* The answer and its verification. *)

\* The sources in the receipts of the run's research steps, failed tries included.
Found == UNION {steps[i].seen : i \in 1..plan.size}

\* Synthesizer.run, or the result of the only step as it is (reuse_verified_single_step).
Synthesize ==
    /\ stage = "synthesize"
    /\ \/ ~mode.single /\ CallOrAbort
       \/ /\ \/ ~mode.single /\ Call("answered") /\ answer' \in SUBSET Cited
             \/ mode.single /\ answer' = steps[1].cites /\ UNCHANGED <<used, starved>>
          /\ stage' = "verify"
          /\ UNCHANGED <<mode, plan, approved, steps, passed, memory, longTerm, result, recorded>>

\* _apply_final_research_gate and _apply_execution_gate: the critic cannot overrule them.
FinalResearchGate == plan.research # {} => Backed(answer, Found)

\* Mutation: the steps that failed are not counted.
UncheckedExecutionGate == approved

ExecutionGate == approved /\ \A i \in 1..plan.size : steps[i].phase = "ok"

Verify ==
    /\ stage = "verify"
    /\ \/ CallOrAbort
       \/ /\ Call("answered")
          /\ \E verdict \in BOOLEAN : passed' = (verdict /\ FinalResearchGate /\ ExecutionGate)
          /\ stage' = "learn"
          /\ UNCHANGED <<mode, plan, approved, steps, answer, memory, longTerm, result, recorded>>

Status == IF ~mode.live THEN "simulated" ELSE IF passed THEN "completed" ELSE "failed"

\* The run is remembered and its episode stored before the call that consolidates it.
Learn ==
    /\ stage = "learn"
    /\ memory' = memory \cup
          {[what |-> 0, validity |-> IF passed /\ mode.live THEN "valid" ELSE "unknown"]}
    /\ longTerm' = [longTerm EXCEPT !.episode =
          IF ~mode.ltm THEN @ ELSE IF Status = "completed" THEN "valid" ELSE "unknown"]
    /\ stage' = IF mode.ltm /\ mode.live THEN "consolidate" ELSE "complete"
    /\ UNCHANGED <<mode, plan, approved, steps, used, starved, answer, passed, result, recorded>>

\* consolidate extracts facts from every live run, passed or not; promote_to_procedure keeps
\* the plan of one that passed.
Consolidate ==
    /\ stage = "consolidate"
    /\ \/ CallOrAbort
       \/ /\ Call("answered")
          /\ \E facts \in BOOLEAN :
                longTerm' = [longTerm EXCEPT !.facts = facts, !.procedure = passed]
          /\ stage' = "complete"
          /\ UNCHANGED <<mode, plan, approved, steps, answer, passed, memory, result, recorded>>

Complete ==
    /\ stage = "complete"
    /\ result' = [status |-> Status, release |-> passed /\ mode.live]
    /\ recorded' \in BOOLEAN
    /\ stage' = "ended"
    /\ UNCHANGED <<mode, plan, approved, steps, used, starved, answer, passed, memory, longTerm>>

-----------------------------------------------------------------------------
LoopInit ==
    /\ mode \in {m \in Modes : Allowed(m)}
    /\ stage = "plan" /\ plan = NoPlan /\ approved = FALSE
    /\ steps = [i \in StepNumbers |-> Untried(0, {})]
    /\ used = 0 /\ starved = FALSE
    /\ answer = {} /\ passed = FALSE
    /\ memory = {} /\ longTerm = [episode |-> "none", facts |-> FALSE, procedure |-> FALSE]
    /\ result = [status |-> "none", release |-> FALSE] /\ recorded = FALSE

LoopNext ==
    \/ MakePlan \/ ReviewPlan \/ RejectPlan
    \/ \E i \in StepNumbers : ExecuteStep(i) \/ CritiqueStep(i)
    \/ StepsEnded \/ Synthesize \/ Verify \/ Learn \/ Consolidate \/ Complete

-----------------------------------------------------------------------------
(* Properties. *)

LoopTypeOK ==
    /\ mode \in Modes /\ approved \in BOOLEAN /\ starved \in BOOLEAN /\ passed \in BOOLEAN
    /\ stage \in {"plan", "review", "rejected", "steps", "synthesize", "verify", "learn",
                  "consolidate", "complete", "ended", "aborted"}
    /\ plan \in [version : 0..(MaxRetries + 1), size : 0..MaxSteps,
                 research : SUBSET StepNumbers]
    /\ steps \in [StepNumbers -> [phase : {"waiting", "answered", "ok", "failed"},
                                  tries : 0..MaxRetries, got : SUBSET Sources,
                                  error : BOOLEAN, cites : SUBSET Cited,
                                  seen : SUBSET Sources]]
    /\ used \in Nat /\ answer \subseteq Cited
    /\ memory \subseteq [what : 0..MaxSteps, validity : {"valid", "invalid", "unknown"}]
    /\ longTerm \in [episode : {"none", "valid", "unknown"}, facts : BOOLEAN,
                     procedure : BOOLEAN]
    /\ result \in [status : {"none", "completed", "failed", "simulated"}, release : BOOLEAN]
    /\ recorded \in BOOLEAN

\* What it takes for a run to count as a success.
Earned ==
    /\ mode.live /\ approved /\ Executable
    /\ \A i \in 1..plan.size : steps[i].phase = "ok"
    /\ plan.research # {} => answer # {} /\ Invented \notin answer
    /\ \A i \in plan.research : steps[i].cites # {} /\ Invented \notin steps[i].cites

\* Whatever the models answer, a run is released, remembered as valid, stored as a valid
\* episode or made a procedure only if its plan was approved, every step has passed and
\* nothing it cites is invented (TankAI.run and its gates).
ReleaseIsEarned ==
    \/ result.release \/ result.status = "completed" \/ longTerm.procedure
    \/ longTerm.episode = "valid" \/ [what |-> 0, validity |-> "valid"] \in memory
    => Earned

\* After a plan that was rejected for good nothing was executed, answered or remembered
\* (_reject_plan's docstring).
RejectionLeavesNothing ==
    stage \in {"rejected", "ended"} /\ ~approved =>
        /\ memory = {} /\ ~longTerm.facts /\ ~longTerm.procedure /\ ~result.release
        /\ \A i \in StepNumbers : steps[i] = Untried(0, {})

\* A step has one verdict in the memory, which is the last one, and threads that end late
\* leave none behind (the memory.add calls of both ways to execute a plan).
OneVerdictPerStep ==
    /\ \A m \in memory : m.what > 0 => m = Remembered(m.what)
    /\ stage \in {"synthesize", "verify", "learn", "consolidate", "complete"} =>
          \A i \in 1..plan.size : Remembered(i) \in memory

\* A plan and an answer, a step and the reviews of the three; the answer of
\* verified_single_step needs no call, consolidation needs one.
Needed == (IF mode.single THEN 5 ELSE 6) + (IF mode.ltm /\ mode.live THEN 1 ELSE 0)

\* The threads of a run share the budget and never exceed it, and with the calls that one
\* step needs it is only used up by a run that repairs its plan, tries a step again or has
\* several (the seven calls web/runtime.py insists on, the five of verified_single_step).
BudgetHolds ==
    /\ used <= mode.calls
    /\ starved /\ mode.calls >= Needed =>
          plan.version > 1 \/ plan.size > 1 \/ \E i \in StepNumbers : steps[i].tries > 0
=============================================================================
