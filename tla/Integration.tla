----------------------------- MODULE Integration -----------------------------
(***************************************************************************)
(* WorkerIntegrationRunner (tankai/dev_orchestrator/integration.py) with   *)
(* the parts of DevelopmentOrchestrator and GitWorkspaceManager it calls:  *)
(* a reviewed run is rebased, fast-forwarded into MAIN and tested, then    *)
(* the project state advances.  Git, the state file and the journal are    *)
(* three stores; the process may stop between any two steps.               *)
(*                                                                         *)
(* The runner is one process: integration_lock serialises the callers and  *)
(* is taken over from a dead owner (git_workspace.py).  The project state  *)
(* is shared with other commands, of which cancel_task interferes.         *)
(*                                                                         *)
(* A commit is the sequence of the runs whose work it contains, so that a  *)
(* rebase appends and "is an ancestor of" is "is a prefix of".             *)
(***************************************************************************)
EXTENDS Naturals, Sequences

CONSTANTS Runs,
          NoJournal,    \* the journal file does not exist
          NoRun,        \* no integration job is being worked on
          MaxCrashes,   \* bound on crashes of the runner
          MaxErrors     \* bound on exceptions from Git, the file system or the state store

Commits == Seq(Runs)
Journals == [stage : {"prepared", "rebased", "merged", "state_committed"}, run : Runs,
             previous : Commits, original : Commits, integration : Commits]

ASSUME IntegrationAssumption ==
    /\ NoRun \notin Runs /\ MaxCrashes \in Nat /\ MaxErrors \in Nat
    /\ NoJournal \notin Journals

VARIABLES main,     \* HEAD of the repository
          branch,   \* HEAD of each run's workspace
          stable,   \* ProjectState.current_commit
          run,      \* ProjectState.worker_runs: state, base_commit, implementation_commit
          task,     \* the state of each run's task
          journal,  \* tankai-integration-journal.json
          pc,       \* where run() is
          job,      \* its local variables
          faults    \* how many crashes and errors have happened

stateVars == <<stable, run, task>>
gitVars == <<main, branch>>
vars == <<main, branch, stable, run, task, journal, pc, job, faults>>

Contains(new, old) == Len(old) <= Len(new) /\ SubSeq(new, 1, Len(old)) = old

NoJob == [run |-> NoRun, previous |-> <<>>, merged |-> FALSE, started |-> FALSE]

NoFaults == [crashes |-> 0, errors |-> 0]

Init ==
    /\ main = <<>> /\ stable = <<>>
    /\ branch = [r \in Runs |-> <<r>>]
    /\ run = [r \in Runs |-> [state |-> "ready_to_integrate", base |-> <<>>, impl |-> <<r>>]]
    /\ task = [r \in Runs |-> "ready_to_integrate"]
    /\ journal = NoJournal
    /\ pc = "idle" /\ job = NoJob
    /\ faults = NoFaults

Goto(place) == pc' = place
Finish == pc' = "idle" /\ job' = NoJob

Start(r) ==
    /\ pc = "idle"
    /\ job' = [NoJob EXCEPT !.run = r]
    /\ Goto("recover")
    /\ UNCHANGED <<gitVars, stateVars, journal, faults>>

-----------------------------------------------------------------------------
(***************************************************************************)
(* recover_interrupted_integration: what the journal of an earlier attempt *)
(* says decides whether MAIN or the workspace is put back.                 *)
(***************************************************************************)
Interrupted == run[journal.run]

\* Everything had been committed: only the journal was left.
Committed ==
    /\ journal.integration # <<>>
    /\ stable = journal.integration /\ main = journal.integration
    /\ Interrupted.state = "integrated"

\* Mutation: whatever was merged is undone.
MergedIsUndone == journal.stage = "merged" /\ main = journal.integration

MergeUndoable ==
    /\ ~Committed
    /\ journal.stage = "merged"
    /\ journal.integration # <<>> /\ stable = journal.previous /\ main = journal.integration

\* The workspace holds the commit the state knows, or a rebase it does not know yet.
Unmerged ==
    /\ ~Committed
    /\ journal.stage \in {"prepared", "rebased"}
    /\ main = journal.previous /\ stable = journal.previous
    /\ branch[journal.run] # Interrupted.impl => Interrupted.impl = journal.original

RecoverNothing ==
    /\ pc = "recover" /\ journal = NoJournal
    /\ Goto("validate")
    /\ UNCHANGED <<gitVars, stateVars, journal, job, faults>>

RecoverCommitted ==
    /\ pc = "recover" /\ journal # NoJournal /\ Committed
    /\ journal' = NoJournal
    /\ Goto("validate")
    /\ UNCHANGED <<gitVars, stateVars, job, faults>>

\* Mutation: the recovery forgets to reset MAIN.
RecoverMergedKeepsMain ==
    /\ pc = "recover" /\ journal # NoJournal /\ MergeUndoable
    /\ Goto("recover_state")
    /\ UNCHANGED <<main, branch, stateVars, journal, job, faults>>

RecoverMerged ==
    /\ pc = "recover" /\ journal # NoJournal /\ MergeUndoable
    /\ main' = journal.previous
    /\ Goto("recover_state")
    /\ UNCHANGED <<branch, stateVars, journal, job, faults>>

\* Mutation: the recovery forgets to reset the workspace.
RecoverUnmergedKeepsBranch ==
    /\ pc = "recover" /\ journal # NoJournal /\ Unmerged
    /\ Goto("recover_state")
    /\ UNCHANGED <<gitVars, stateVars, journal, job, faults>>

RecoverUnmerged ==
    /\ pc = "recover" /\ journal # NoJournal /\ Unmerged
    /\ branch' = [branch EXCEPT ![journal.run] = Interrupted.impl]
    /\ Goto("recover_state")
    /\ UNCHANGED <<main, stateVars, journal, job, faults>>

\* GitWorkspaceError: nothing is changed, and the next caller meets the same journal.
RecoverRefused ==
    /\ pc = "recover" /\ journal # NoJournal
    /\ ~Committed /\ ~MergeUndoable /\ ~Unmerged
    /\ Finish
    /\ UNCHANGED <<gitVars, stateVars, journal, faults>>

\* Mutation: a refused reset is taken for nothing to reset.
RecoverStateRefusalIgnored ==
    /\ pc = "recover_state"
    /\ IF Interrupted.state = "integrating" /\ task[journal.run] = "ready_to_integrate"
       THEN run' = [run EXCEPT ![journal.run].state = "ready_to_integrate"]
       ELSE UNCHANGED run
    /\ Goto("recover_clear")
    /\ UNCHANGED <<gitVars, stable, task, journal, job, faults>>

\* reset_worker_integration refuses when the task was cancelled meanwhile.
RecoverState ==
    /\ pc = "recover_state"
    /\ \/ /\ Interrupted.state = "integrating" /\ task[journal.run] = "ready_to_integrate"
          /\ run' = [run EXCEPT ![journal.run].state = "ready_to_integrate"]
          /\ Goto("recover_clear") /\ UNCHANGED job
       \/ /\ Interrupted.state = "integrating" /\ task[journal.run] # "ready_to_integrate"
          /\ Finish /\ UNCHANGED run
       \/ /\ Interrupted.state # "integrating"
          /\ Goto("recover_clear") /\ UNCHANGED <<run, job>>
    /\ UNCHANGED <<gitVars, stable, task, journal, faults>>

RecoverClear ==
    /\ pc = "recover_clear"
    /\ journal' = NoJournal
    /\ Goto("validate")
    /\ UNCHANGED <<gitVars, stateVars, job, faults>>

-----------------------------------------------------------------------------
(***************************************************************************)
(* run() for the job's own run r.                                          *)
(***************************************************************************)
Mine == job.run

Ready(r) == run[r].state = "ready_to_integrate" /\ task[r] = "ready_to_integrate"

\* Checks on the state, the workspace and the repository, all before the try block.
Validate ==
    /\ pc = "validate"
    /\ IF Ready(Mine) /\ branch[Mine] = run[Mine].impl /\ main = stable
       THEN job' = [job EXCEPT !.previous = stable] /\ Goto("prepare")
       ELSE Finish
    /\ UNCHANGED <<gitVars, stateVars, journal, faults>>

\* Mutation: the journal begins with a stage the recovery does not know.
PrepareUnknownStage ==
    /\ pc = "prepare"
    /\ journal' = [stage |-> "preparing", run |-> Mine, previous |-> job.previous,
                   original |-> run[Mine].impl, integration |-> <<>>]
    /\ Goto("begin")
    /\ UNCHANGED <<gitVars, stateVars, job, faults>>

Prepare ==
    /\ pc = "prepare"
    /\ journal' = [stage |-> "prepared", run |-> Mine, previous |-> job.previous,
                   original |-> run[Mine].impl, integration |-> <<>>]
    /\ Goto("begin")
    /\ UNCHANGED <<gitVars, stateVars, job, faults>>

\* begin_worker_integration
Begin ==
    /\ pc = "begin"
    /\ IF stable = job.previous /\ Ready(Mine)
       THEN /\ run' = [run EXCEPT ![Mine].state = "integrating"]
            /\ job' = [job EXCEPT !.started = TRUE]
            /\ Goto("rebase")
       ELSE Goto("rollback") /\ UNCHANGED <<run, job>>
    /\ UNCHANGED <<gitVars, stable, task, journal, faults>>

\* rebase_workspace, unless the run already builds on MAIN
Rebase ==
    /\ pc = "rebase"
    /\ IF run[Mine].base = job.previous
       THEN Goto("journal_rebased") /\ UNCHANGED branch
       ELSE branch' = [branch EXCEPT ![Mine] = Append(job.previous, Mine)] /\ Goto("record")
    /\ UNCHANGED <<main, stateVars, journal, job, faults>>

\* record_worker_rebase
Record ==
    /\ pc = "record"
    /\ IF run[Mine].state = "integrating" /\ stable = job.previous
       THEN /\ run' = [run EXCEPT ![Mine].base = job.previous, ![Mine].impl = branch[Mine]]
            /\ Goto("journal_rebased")
       ELSE Goto("rollback") /\ UNCHANGED run
    /\ UNCHANGED <<gitVars, stable, task, journal, job, faults>>

\* Mutation: the merge is skipped.
JournalRebasedOnly ==
    /\ pc = "journal_rebased"
    /\ journal' = [journal EXCEPT !.stage = "rebased", !.integration = run[Mine].impl]
    /\ Goto("test")
    /\ UNCHANGED <<gitVars, stateVars, job, faults>>

JournalRebased ==
    /\ pc = "journal_rebased"
    /\ journal' = [journal EXCEPT !.stage = "rebased", !.integration = run[Mine].impl]
    /\ Goto("merge")
    /\ UNCHANGED <<gitVars, stateVars, job, faults>>

\* fast_forward_repository, and the comparison with the reviewed commit
Mergeable == main = job.previous /\ Contains(branch[Mine], job.previous)

Merge ==
    /\ pc = "merge"
    /\ IF Mergeable
       THEN /\ main' = branch[Mine]
            /\ job' = [job EXCEPT !.merged = TRUE]
            /\ Goto(IF branch[Mine] = run[Mine].impl THEN "journal_merged" ELSE "rollback")
       ELSE Goto("rollback") /\ UNCHANGED <<main, job>>
    /\ UNCHANGED <<branch, stateVars, journal, faults>>

JournalMerged ==
    /\ pc = "journal_merged"
    /\ journal' = [journal EXCEPT !.stage = "merged", !.integration = main]
    /\ Goto("test")
    /\ UNCHANGED <<gitVars, stateVars, job, faults>>

\* The post-merge tests pass or fail.
Test ==
    /\ pc = "test"
    /\ \E passed \in BOOLEAN : Goto(IF passed THEN "finalize" ELSE "rollback")
    /\ UNCHANGED <<gitVars, stateVars, journal, job, faults>>

\* finalize_worker_integration
Finalize ==
    /\ pc = "finalize"
    /\ IF /\ run[Mine].state = "integrating" /\ task[Mine] = "ready_to_integrate"
          /\ stable = job.previous
          /\ journal.integration # job.previous /\ journal.integration = run[Mine].impl
       THEN /\ run' = [run EXCEPT ![Mine].state = "integrated"]
            /\ task' = [task EXCEPT ![Mine] = "integrated"]
            /\ stable' = journal.integration
            /\ Goto("journal_committed")
       ELSE Goto("rollback") /\ UNCHANGED stateVars
    /\ UNCHANGED <<gitVars, journal, job, faults>>

JournalCommitted ==
    /\ pc = "journal_committed"
    /\ journal' = [journal EXCEPT !.stage = "state_committed"]
    /\ Goto("clear")
    /\ UNCHANGED <<gitVars, stateVars, job, faults>>

Clear ==
    /\ pc = "clear"
    /\ journal' = NoJournal
    /\ Finish
    /\ UNCHANGED <<gitVars, stateVars, faults>>

-----------------------------------------------------------------------------
(***************************************************************************)
(* The except block: put MAIN or the workspace back, clear the journal,    *)
(* mark the run as blocked.                                                *)
(***************************************************************************)
RollbackMerge ==
    /\ pc = "rollback" /\ job.merged
    /\ main' = job.previous
    /\ Goto("rollback_clear")
    /\ UNCHANGED <<branch, stateVars, journal, job, faults>>

RollbackBranch ==
    /\ pc = "rollback" /\ ~job.merged
    /\ branch' = IF branch[Mine] \in {journal.original, run[Mine].impl} THEN branch
                 ELSE [branch EXCEPT ![Mine] = journal.original]
    /\ Goto("rollback_clear")
    /\ UNCHANGED <<main, stateVars, journal, job, faults>>

RollbackClear ==
    /\ pc = "rollback_clear"
    /\ journal' = NoJournal
    /\ Goto("fail")
    /\ UNCHANGED <<gitVars, stateVars, job, faults>>

\* Mutation: fail_worker_run blocks a run in any state.
FailAnyRun ==
    /\ pc = "fail"
    /\ IF job.started
       THEN /\ run' = [run EXCEPT ![Mine].state = "blocked"]
            /\ task' = [task EXCEPT ![Mine] = "blocked"]
       ELSE UNCHANGED <<run, task>>
    /\ Finish
    /\ UNCHANGED <<gitVars, stable, journal, faults>>

\* Mutation: fail_worker_run leaves the run of a cancelled task alone.
FailUncancelledRun ==
    /\ pc = "fail"
    /\ IF job.started /\ run[Mine].state = "integrating" /\ task[Mine] = "ready_to_integrate"
       THEN /\ run' = [run EXCEPT ![Mine].state = "blocked"]
            /\ task' = [task EXCEPT ![Mine] = "blocked"]
       ELSE UNCHANGED <<run, task>>
    /\ Finish
    /\ UNCHANGED <<gitVars, stable, journal, faults>>

\* fail_worker_run(blocked=True) overwrites the state of the task.
FailRun ==
    /\ pc = "fail"
    /\ IF job.started /\ run[Mine].state = "integrating"
       THEN /\ run' = [run EXCEPT ![Mine].state = "blocked"]
            /\ task' = [task EXCEPT ![Mine] = "blocked"]
       ELSE UNCHANGED <<run, task>>
    /\ Finish
    /\ UNCHANGED <<gitVars, stable, journal, faults>>

-----------------------------------------------------------------------------
(***************************************************************************)
(* Faults.  An exception before the step it interrupts has had its effect, *)
(* the same in a merge that had already moved MAIN, in the rollback, and a *)
(* crash.                                                                  *)
(***************************************************************************)
Tried == {"begin", "rebase", "record", "journal_rebased", "merge", "journal_merged", "test",
          "finalize", "journal_committed", "clear"}
Untried == {"recover", "recover_state", "recover_clear", "validate", "prepare",
            "rollback_clear", "fail"}

Err == faults.errors < MaxErrors /\ faults' = [faults EXCEPT !.errors = @ + 1]

Raise ==
    /\ pc \in Tried /\ Err
    /\ Goto("rollback")
    /\ UNCHANGED <<gitVars, stateVars, journal, job>>

\* git merge succeeds and a command after it fails: merged_commit is not set.
MergeRaises ==
    /\ pc = "merge" /\ Mergeable /\ Err
    /\ main' = branch[Mine]
    /\ Goto("rollback")
    /\ UNCHANGED <<branch, stateVars, journal, job>>

\* The journal is kept when the rollback itself fails.
RollbackRaises ==
    /\ pc = "rollback" /\ Err
    /\ Goto("fail")
    /\ UNCHANGED <<gitVars, stateVars, journal, job>>

\* Outside the try block, and inside the except block, an error ends run().
Abort ==
    /\ pc \in Untried /\ Err
    /\ Finish
    /\ UNCHANGED <<gitVars, stateVars, journal>>

Crash ==
    /\ pc # "idle" /\ faults.crashes < MaxCrashes
    /\ faults' = [faults EXCEPT !.crashes = @ + 1]
    /\ Finish
    /\ UNCHANGED <<gitVars, stateVars, journal>>

\* cancel_task, at any moment: it looks at the task only.
CancelTask(r) ==
    /\ task[r] \notin {"integrated", "cancelled"}
    /\ task' = [task EXCEPT ![r] = "cancelled"]
    /\ UNCHANGED <<gitVars, stable, run, journal, pc, job, faults>>

Recover ==
    \/ RecoverNothing \/ RecoverCommitted \/ RecoverMerged \/ RecoverUnmerged
    \/ RecoverRefused \/ RecoverState \/ RecoverClear
Integrate ==
    \/ Validate \/ Prepare \/ Begin \/ Rebase \/ Record \/ JournalRebased \/ Merge
    \/ JournalMerged \/ Test \/ Finalize \/ JournalCommitted \/ Clear
Except == RollbackMerge \/ RollbackBranch \/ RollbackClear \/ FailRun
Fault == Raise \/ MergeRaises \/ RollbackRaises \/ Abort \/ Crash

Next ==
    \/ \E r \in Runs : Start(r) \/ CancelTask(r)
    \/ Recover \/ Integrate \/ Except \/ Fault

Spec == Init /\ [][Next]_vars

\* Every step of run() is bounded by a timeout.  Nothing makes a job start, a
\* fault or a cancellation happen.
FairSpec == Spec /\ WF_vars(Recover \/ Integrate \/ Except)

-----------------------------------------------------------------------------
\* The repository, the project state and the journal hold well-formed values.
TypeOK ==
    /\ main \in Commits /\ stable \in Commits
    /\ branch \in [Runs -> Commits]
    /\ run \in [Runs -> [state : {"ready_to_integrate", "integrating", "integrated", "blocked"},
                         base : Commits, impl : Commits]]
    /\ task \in [Runs -> {"ready_to_integrate", "integrated", "blocked", "cancelled"}]
    /\ journal \in Journals \cup {NoJournal}
    /\ pc \in {"idle", "rollback"} \cup Tried \cup Untried
    /\ job \in [run : Runs \cup {NoRun}, previous : Commits, merged : BOOLEAN, started : BOOLEAN]
    /\ faults \in [crashes : Nat, errors : Nat]

\* As long as no command has failed, a journal says why MAIN and the project
\* state disagree: a crash never leaves them apart without a trace (the order of
\* journal.write, merge, finalize, reset and journal.clear).
DivergenceIsJournaled == faults.errors = 0 /\ main # stable => journal # NoJournal

\* As long as no command has failed, MAIN never loses work the project state
\* counts as integrated: recovery resets MAIN only where the state did not follow.
StableIsInMain == faults.errors = 0 => Contains(main, stable)

\* The project state moves only forward, to the very commit MAIN is on.
StateFollowsMain ==
    [][stable' # stable => stable' = main /\ main' = main /\ Contains(stable', stable)]_vars

\* A run is integrated exactly when its work is in the stable commit, once: no
\* crash or retry integrates a run twice or loses one.
IntegratedOnce ==
    \A r \in Runs :
        LET at == {i \in 1..Len(stable) : stable[i] = r}
        IN IF run[r].state = "integrated" THEN \E i \in at : at = {i} ELSE at = {}

\* With no journal left, a run that waits for integration has its workspace on
\* the commit that was reviewed, so the next attempt can use it: recovery and
\* rollback undo a rebase the state never heard of.
WaitingRunIsUsable ==
    journal = NoJournal
        => \A r \in Runs : run[r].state = "ready_to_integrate" => branch[r] = run[r].impl

\* Who answers for a run that is being integrated: the journal, from which an interrupted
\* attempt is recovered, or the attempt itself, which blocks the run if it fails.
Carried(r) == (journal # NoJournal /\ journal.run = r) \/ (Mine = r /\ job.started)
Orphaned(r) == run[r].state = "integrating" /\ ~Carried(r)

\* No crash, error, refusal or cancellation leaves a run "integrating" that nobody answers
\* for, but in one place: after journal.clear() and before fail_worker_run has returned
\* (the except block of run()).
OrphanedInOnePlace ==
    [][\A r \in Runs :
          Orphaned(r)' => Orphaned(r) \/ (pc = "fail" /\ Mine = r /\ faults' # faults)]_vars

\* Without a fault an integration that has begun ends: the run is integrated or
\* blocked, also when its tests fail or its task is cancelled on the way.
IntegrationEnds ==
    \A r \in Runs : run[r].state = "integrating"
        ~> run[r].state # "integrating" \/ faults # NoFaults

-----------------------------------------------------------------------------
\* What the documentation says and the code does not guarantee.

\* README.md: "Ein atomar geschriebenes Integrationsjournal erkennt und
\* repariert Abstürze zwischen Git-Merge und ProjectState-Commit": no journal
\* makes recover_interrupted_integration give up.
CrashIsRepaired ==
    pc = "recover" /\ journal # NoJournal => Committed \/ MergeUndoable \/ Unmerged

\* integration.py: "advances ProjectState only after Git and tests agree": when
\* nobody works on it and no journal is left, MAIN is where the state says.
StateAgreesWithGit == pc = "idle" /\ journal = NoJournal => main = stable
=============================================================================
