-------------------------- MODULE IntegrationProofs --------------------------
(***************************************************************************)
(* Proofs about the integration of reviewed runs (integration.py): the     *)
(* project state follows MAIN, every run is integrated once, a waiting run *)
(* stays usable, and without an error Git and the state never part without *)
(* a trace, for any runs and any number of crashes and errors.  The        *)
(* invariant says what run() knows at each of its steps.                   *)
(***************************************************************************)
EXTENDS Integration, TLAPS

-----------------------------------------------------------------------------
(* Sequences: a commit contains itself and what it was appended to. *)

LEMMA ContainsItself ==
    ASSUME NEW s \in Commits
    PROVE  Contains(s, s)
BY DEF Commits, Contains

-----------------------------------------------------------------------------
(* The inductive invariant. *)

\* Steps of run(): before the merge, after it, and after the state's commit.
Unmerging == {"begin", "rebase", "record", "journal_rebased", "merge"}
Merging == {"journal_merged", "test", "finalize"}
Committing == {"journal_committed", "clear"}

\* From the recovery's steps on there is a journal, from prepare on it is the job's own.
Located ==
    /\ pc # "idle" => Mine \in Runs
    /\ pc \in {"recover_state", "recover_clear", "rollback", "rollback_clear"}
              \cup Unmerging \cup Merging \cup Committing => journal # NoJournal
    /\ pc \in Unmerging \cup Merging => journal.run = Mine
    /\ pc \in Unmerging => journal.stage # "merged"

\* What is tested was merged on top of the state's commit, and the journal names it.
MergedAsJournaled ==
    /\ pc \in Merging => job.merged /\ Contains(main, job.previous)
    /\ pc \in {"test", "finalize"} => journal.integration = main

\* Without an error the state stays where the attempt found it until its commit, and MAIN
\* is there too, but for the merge and until its rollback.
Undisturbed ==
    faults.errors = 0 =>
        /\ pc \in {"prepare", "rollback"} \cup Unmerging \cup Merging => stable = job.previous
        /\ pc \in {"recover_state", "recover_clear", "prepare", "rollback_clear"}
                  \cup Unmerging \cup Committing => main = stable
        /\ pc = "rollback" /\ ~job.merged => main = stable

\* A reviewed commit is its run's work on top of its base.
WorkOnBase ==
    /\ \A r \in Runs : run[r].impl = Append(run[r].base, r)
    /\ pc = "record" => branch[Mine] = Append(job.previous, Mine)
    /\ pc \in {"journal_rebased", "merge"} \cup Merging => run[Mine].base = job.previous

\* A waiting run's workspace is on its reviewed commit, whatever the journal says, and so
\* is that of a run the recovery makes wait again.
WaitingUsable ==
    /\ \A r \in Runs : run[r].state = "ready_to_integrate" => branch[r] = run[r].impl
    /\ pc \in {"rebase", "record", "journal_rebased", "merge"} \cup Merging
          => run[Mine].state = "integrating"
    /\ pc = "recover_state" => branch[journal.run] = run[journal.run].impl
    /\ pc = "journal_merged" => branch[Mine] = run[Mine].impl
    /\ journal # NoJournal /\ journal.stage = "merged"
          => branch[journal.run] = run[journal.run].impl

IntegrationInv ==
    /\ TypeOK /\ Located /\ MergedAsJournaled /\ Undisturbed /\ WorkOnBase /\ WaitingUsable
    /\ DivergenceIsJournaled /\ StableIsInMain /\ IntegratedOnce

\* The values that come and go: no job, a job's first fields, and a journal is never NoJournal.
Jobs == [run : Runs \cup {NoRun}, previous : Commits, merged : BOOLEAN, started : BOOLEAN]
RunRecords == [state : {"ready_to_integrate", "integrating", "integrated", "blocked"},
               base : Commits, impl : Commits]
Places == {"idle", "rollback"} \cup Tried \cup Untried

LEMMA JournalExists ==
    ASSUME NEW j \in Journals
    PROVE  j # NoJournal
BY IntegrationAssumption DEF Journals, Commits

LEMMA NoJobIsJob == NoJob \in Jobs
BY DEF NoJob, Jobs, Commits

LEMMA WhereRunIs ==
    ASSUME IntegrationInv, pc # "idle"
    PROVE  Mine \in Runs
BY DEF IntegrationInv, Located

LEMMA WhatJournalIs ==
    ASSUME IntegrationInv,
           pc \in {"recover_state", "recover_clear", "rollback", "rollback_clear"}
                 \cup Unmerging \cup Merging \cup Committing \/ journal # NoJournal
    PROVE  journal \in Journals
BY DEF IntegrationInv, Located, TypeOK

LEMMA StartKeeps ==
    ASSUME IntegrationInv, NEW r \in Runs, Start(r)
    PROVE  IntegrationInv'
<1>1. TypeOK'
  <2>1. job' \in Jobs /\ pc' \in Places
    BY NoJobIsJob DEF Start, Jobs, Places, Goto, Untried
  <2> QED
    BY <2>1 DEF IntegrationInv, TypeOK, Jobs, RunRecords, Places, gitVars, stateVars, Start
<1>2. Located'
  BY DEF IntegrationInv, Located, Unmerging, Merging, Committing, Mine, TypeOK, Start, NoJob,
     gitVars, stateVars, Goto
<1>3. MergedAsJournaled'
  BY DEF IntegrationInv, MergedAsJournaled, Merging, Mine, Start, NoJob, gitVars, stateVars,
     Goto
<1>4. Undisturbed'
  BY DEF IntegrationInv, Undisturbed, Unmerging, Merging, Committing, DivergenceIsJournaled,
     TypeOK, Start, NoJob, gitVars, stateVars, Goto, Mine
<1>5. WorkOnBase'
  BY DEF IntegrationInv, WorkOnBase, Merging, Unmerging, Mine, TypeOK, Located, Start, NoJob,
     gitVars, stateVars, Goto
<1>6. WaitingUsable'
  BY DEF IntegrationInv, WaitingUsable, Merging, Unmerging, Mine, TypeOK, Located, Start,
     NoJob, gitVars, stateVars, Goto
<1>7. DivergenceIsJournaled'
  BY DEF IntegrationInv, DivergenceIsJournaled, Undisturbed, Unmerging, Committing, Merging,
     TypeOK, Located, Start, NoJob, gitVars, stateVars, Goto, Mine
<1>8. StableIsInMain'
  BY ContainsItself DEF IntegrationInv, StableIsInMain, Undisturbed, Unmerging, Committing,
     Merging, TypeOK, Start, NoJob, gitVars, stateVars, Goto, Mine
<1>9. IntegratedOnce'
  BY DEF IntegrationInv, IntegratedOnce, TypeOK, Located, Start, NoJob, gitVars, stateVars,
     Goto, Mine
<1> QED
  BY <1>1, <1>2, <1>3, <1>4, <1>5, <1>6, <1>7, <1>8, <1>9 DEF IntegrationInv

LEMMA CancelTaskKeeps ==
    ASSUME IntegrationInv, NEW r \in Runs, CancelTask(r)
    PROVE  IntegrationInv'
<1>1. TypeOK'
  BY DEF IntegrationInv, TypeOK, Journals, Tried, Untried, Err, NoJob, Located, CancelTask,
     gitVars, stateVars, Goto, Mine
<1>2. Located'
  BY DEF IntegrationInv, Located, Unmerging, Merging, Committing, Mine, TypeOK, CancelTask,
     gitVars, stateVars, Goto
<1>3. MergedAsJournaled'
  BY DEF IntegrationInv, MergedAsJournaled, Merging, Mine, CancelTask, gitVars, stateVars,
     Goto
<1>4. Undisturbed'
  BY DEF IntegrationInv, Undisturbed, Unmerging, Merging, Committing, DivergenceIsJournaled,
     TypeOK, CancelTask, gitVars, stateVars, Goto, Mine
<1>5. WorkOnBase'
  BY DEF IntegrationInv, WorkOnBase, Merging, Unmerging, Mine, TypeOK, Located, CancelTask,
     gitVars, stateVars, Goto
<1>6. WaitingUsable'
  BY DEF IntegrationInv, WaitingUsable, Merging, Unmerging, Mine, TypeOK, Located, CancelTask,
     gitVars, stateVars, Goto
<1>7. DivergenceIsJournaled'
  BY DEF IntegrationInv, DivergenceIsJournaled, Undisturbed, Unmerging, Committing, Merging,
     TypeOK, Located, CancelTask, gitVars, stateVars, Goto, Mine
<1>8. StableIsInMain'
  BY ContainsItself DEF IntegrationInv, StableIsInMain, Undisturbed, Unmerging, Committing,
     Merging, TypeOK, CancelTask, gitVars, stateVars, Goto, Mine
<1>9. IntegratedOnce'
  BY DEF IntegrationInv, IntegratedOnce, TypeOK, Located, CancelTask, gitVars, stateVars,
     Goto, Mine
<1> QED
  BY <1>1, <1>2, <1>3, <1>4, <1>5, <1>6, <1>7, <1>8, <1>9 DEF IntegrationInv

LEMMA RecoverNothingKeeps ==
    ASSUME IntegrationInv, RecoverNothing
    PROVE  IntegrationInv'
<1>1. TypeOK'
  BY DEF IntegrationInv, TypeOK, Journals, Tried, Untried, Err, NoJob, Located,
     RecoverNothing, gitVars, stateVars, Goto, Mine
<1>2. Located'
  BY DEF IntegrationInv, Located, Unmerging, Merging, Committing, Mine, TypeOK,
     RecoverNothing, gitVars, stateVars, Goto
<1>3. MergedAsJournaled'
  BY DEF IntegrationInv, MergedAsJournaled, Merging, Mine, RecoverNothing, gitVars, stateVars,
     Goto
<1>4. Undisturbed'
  BY DEF IntegrationInv, Undisturbed, Unmerging, Merging, Committing, DivergenceIsJournaled,
     TypeOK, RecoverNothing, gitVars, stateVars, Goto, Mine
<1>5. WorkOnBase'
  BY DEF IntegrationInv, WorkOnBase, Merging, Unmerging, Mine, TypeOK, Located,
     RecoverNothing, gitVars, stateVars, Goto
<1>6. WaitingUsable'
  BY DEF IntegrationInv, WaitingUsable, Merging, Unmerging, Mine, TypeOK, Located,
     RecoverNothing, gitVars, stateVars, Goto
<1>7. DivergenceIsJournaled'
  BY DEF IntegrationInv, DivergenceIsJournaled, Undisturbed, Unmerging, Committing, Merging,
     TypeOK, Located, RecoverNothing, gitVars, stateVars, Goto, Mine
<1>8. StableIsInMain'
  BY ContainsItself DEF IntegrationInv, StableIsInMain, Undisturbed, Unmerging, Committing,
     Merging, TypeOK, RecoverNothing, gitVars, stateVars, Goto, Mine
<1>9. IntegratedOnce'
  BY DEF IntegrationInv, IntegratedOnce, TypeOK, Located, RecoverNothing, gitVars, stateVars,
     Goto, Mine
<1> QED
  BY <1>1, <1>2, <1>3, <1>4, <1>5, <1>6, <1>7, <1>8, <1>9 DEF IntegrationInv

LEMMA RecoverCommittedKeeps ==
    ASSUME IntegrationInv, RecoverCommitted
    PROVE  IntegrationInv'
<1>1. TypeOK'
  BY DEF IntegrationInv, TypeOK, Journals, Tried, Untried, Err, NoJob, Located,
     RecoverCommitted, Committed, Interrupted, gitVars, stateVars, Goto, Mine
<1>2. Located'
  BY DEF IntegrationInv, Located, Unmerging, Merging, Committing, Mine, TypeOK,
     RecoverCommitted, Committed, Interrupted, gitVars, stateVars, Goto
<1>3. MergedAsJournaled'
  BY DEF IntegrationInv, MergedAsJournaled, Merging, Mine, RecoverCommitted, Committed,
     Interrupted, gitVars, stateVars, Goto
<1>4. Undisturbed'
  BY DEF IntegrationInv, Undisturbed, Unmerging, Merging, Committing, DivergenceIsJournaled,
     TypeOK, RecoverCommitted, Committed, Interrupted, gitVars, stateVars, Goto, Mine
<1>5. WorkOnBase'
  BY DEF IntegrationInv, WorkOnBase, Merging, Unmerging, Mine, TypeOK, Located,
     RecoverCommitted, Committed, Interrupted, gitVars, stateVars, Goto
<1>6. WaitingUsable'
  BY DEF IntegrationInv, WaitingUsable, Merging, Unmerging, Mine, TypeOK, Located,
     RecoverCommitted, Committed, Interrupted, gitVars, stateVars, Goto
<1>7. DivergenceIsJournaled'
  BY DEF IntegrationInv, DivergenceIsJournaled, Undisturbed, Unmerging, Committing, Merging,
     TypeOK, Located, RecoverCommitted, Committed, Interrupted, gitVars, stateVars, Goto, Mine
<1>8. StableIsInMain'
  BY ContainsItself DEF IntegrationInv, StableIsInMain, Undisturbed, Unmerging, Committing,
     Merging, TypeOK, RecoverCommitted, Committed, Interrupted, gitVars, stateVars, Goto, Mine
<1>9. IntegratedOnce'
  BY DEF IntegrationInv, IntegratedOnce, TypeOK, Located, RecoverCommitted, Committed,
     Interrupted, gitVars, stateVars, Goto, Mine
<1> QED
  BY <1>1, <1>2, <1>3, <1>4, <1>5, <1>6, <1>7, <1>8, <1>9 DEF IntegrationInv

LEMMA RecoverMergedKeeps ==
    ASSUME IntegrationInv, RecoverMerged
    PROVE  IntegrationInv'
<1>1. TypeOK'
  BY DEF IntegrationInv, TypeOK, Journals, Tried, Untried, Err, NoJob, Located, RecoverMerged,
     MergeUndoable, Interrupted, gitVars, stateVars, Goto, Mine
<1>2. Located'
  BY DEF IntegrationInv, Located, Unmerging, Merging, Committing, Mine, TypeOK, RecoverMerged,
     MergeUndoable, Interrupted, gitVars, stateVars, Goto
<1>3. MergedAsJournaled'
  BY DEF IntegrationInv, MergedAsJournaled, Merging, Mine, RecoverMerged, MergeUndoable,
     Interrupted, gitVars, stateVars, Goto
<1>4. Undisturbed'
  BY DEF IntegrationInv, Undisturbed, Unmerging, Merging, Committing, DivergenceIsJournaled,
     TypeOK, RecoverMerged, MergeUndoable, Interrupted, gitVars, stateVars, Goto, Mine
<1>5. WorkOnBase'
  BY DEF IntegrationInv, WorkOnBase, Merging, Unmerging, Mine, TypeOK, Located, RecoverMerged,
     MergeUndoable, Interrupted, gitVars, stateVars, Goto
<1>6. WaitingUsable'
  BY DEF IntegrationInv, WaitingUsable, Merging, Unmerging, Mine, TypeOK, Located,
     RecoverMerged, MergeUndoable, Interrupted, gitVars, stateVars, Goto
<1>7. DivergenceIsJournaled'
  BY DEF IntegrationInv, DivergenceIsJournaled, Undisturbed, Unmerging, Committing, Merging,
     TypeOK, Located, RecoverMerged, MergeUndoable, Interrupted, gitVars, stateVars, Goto,
     Mine
<1>8. StableIsInMain'
  BY ContainsItself DEF IntegrationInv, StableIsInMain, Undisturbed, Unmerging, Committing,
     Merging, TypeOK, RecoverMerged, MergeUndoable, Interrupted, gitVars, stateVars, Goto,
     Mine
<1>9. IntegratedOnce'
  BY DEF IntegrationInv, IntegratedOnce, TypeOK, Located, RecoverMerged, MergeUndoable,
     Interrupted, gitVars, stateVars, Goto, Mine
<1> QED
  BY <1>1, <1>2, <1>3, <1>4, <1>5, <1>6, <1>7, <1>8, <1>9 DEF IntegrationInv

LEMMA RecoverUnmergedKeeps ==
    ASSUME IntegrationInv, RecoverUnmerged
    PROVE  IntegrationInv'
<1>1. TypeOK'
  BY DEF IntegrationInv, TypeOK, Journals, Tried, Untried, Err, NoJob, Located,
     RecoverUnmerged, Unmerged, Interrupted, gitVars, stateVars, Goto, Mine
<1>2. Located'
  BY DEF IntegrationInv, Located, Unmerging, Merging, Committing, Mine, TypeOK,
     RecoverUnmerged, Unmerged, Interrupted, gitVars, stateVars, Goto
<1>3. MergedAsJournaled'
  BY DEF IntegrationInv, MergedAsJournaled, Merging, Mine, RecoverUnmerged, Unmerged,
     Interrupted, gitVars, stateVars, Goto
<1>4. Undisturbed'
  BY DEF IntegrationInv, Undisturbed, Unmerging, Merging, Committing, DivergenceIsJournaled,
     TypeOK, RecoverUnmerged, Unmerged, Interrupted, gitVars, stateVars, Goto, Mine
<1>5. WorkOnBase'
  BY DEF IntegrationInv, WorkOnBase, Merging, Unmerging, Mine, TypeOK, Located,
     RecoverUnmerged, Unmerged, Interrupted, gitVars, stateVars, Goto
<1>6. WaitingUsable'
  <2>1. journal \in Journals /\ journal.stage # "merged"
    BY WhatJournalIs DEF RecoverUnmerged, Unmerged
  <2>2. branch' = [branch EXCEPT ![journal.run] = run[journal.run].impl] /\ pc' = "recover_state"
    BY DEF RecoverUnmerged, Interrupted, Goto
  <2> QED
    BY <2>1, <2>2 DEF IntegrationInv, WaitingUsable, TypeOK, Journals, RecoverUnmerged,
       stateVars, Merging
<1>7. DivergenceIsJournaled'
  BY DEF IntegrationInv, DivergenceIsJournaled, Undisturbed, Unmerging, Committing, Merging,
     TypeOK, Located, RecoverUnmerged, Unmerged, Interrupted, gitVars, stateVars, Goto, Mine
<1>8. StableIsInMain'
  BY ContainsItself DEF IntegrationInv, StableIsInMain, Undisturbed, Unmerging, Committing,
     Merging, TypeOK, RecoverUnmerged, Unmerged, Interrupted, gitVars, stateVars, Goto, Mine
<1>9. IntegratedOnce'
  BY DEF IntegrationInv, IntegratedOnce, TypeOK, Located, RecoverUnmerged, Unmerged,
     Interrupted, gitVars, stateVars, Goto, Mine
<1> QED
  BY <1>1, <1>2, <1>3, <1>4, <1>5, <1>6, <1>7, <1>8, <1>9 DEF IntegrationInv

LEMMA RecoverRefusedKeeps ==
    ASSUME IntegrationInv, RecoverRefused
    PROVE  IntegrationInv'
<1>1. TypeOK'
  <2>1. job' \in Jobs /\ pc' \in Places
    BY NoJobIsJob DEF RecoverRefused, Finish, Places
  <2> QED
    BY <2>1 DEF IntegrationInv, TypeOK, Jobs, RunRecords, Places, gitVars, stateVars,
       RecoverRefused, Finish
<1>2. Located'
  BY DEF IntegrationInv, Located, Unmerging, Merging, Committing, Mine, TypeOK,
     RecoverRefused, Finish, NoJob, gitVars, stateVars, Goto
<1>3. MergedAsJournaled'
  BY DEF IntegrationInv, MergedAsJournaled, Merging, Mine, RecoverRefused, Finish, NoJob,
     gitVars, stateVars, Goto
<1>4. Undisturbed'
  BY DEF IntegrationInv, Undisturbed, Unmerging, Merging, Committing, DivergenceIsJournaled,
     TypeOK, RecoverRefused, Finish, NoJob, gitVars, stateVars, Goto, Mine
<1>5. WorkOnBase'
  BY DEF IntegrationInv, WorkOnBase, Merging, Unmerging, Mine, TypeOK, Located,
     RecoverRefused, Finish, NoJob, gitVars, stateVars, Goto
<1>6. WaitingUsable'
  BY DEF IntegrationInv, WaitingUsable, Merging, Unmerging, Mine, TypeOK, Located,
     RecoverRefused, Finish, NoJob, gitVars, stateVars, Goto
<1>7. DivergenceIsJournaled'
  BY DEF IntegrationInv, DivergenceIsJournaled, Undisturbed, Unmerging, Committing, Merging,
     TypeOK, Located, RecoverRefused, Finish, NoJob, gitVars, stateVars, Goto, Mine
<1>8. StableIsInMain'
  BY ContainsItself DEF IntegrationInv, StableIsInMain, Undisturbed, Unmerging, Committing,
     Merging, TypeOK, RecoverRefused, Finish, NoJob, gitVars, stateVars, Goto, Mine
<1>9. IntegratedOnce'
  BY DEF IntegrationInv, IntegratedOnce, TypeOK, Located, RecoverRefused, Finish, NoJob,
     gitVars, stateVars, Goto, Mine
<1> QED
  BY <1>1, <1>2, <1>3, <1>4, <1>5, <1>6, <1>7, <1>8, <1>9 DEF IntegrationInv

LEMMA RecoverStateKeeps ==
    ASSUME IntegrationInv, RecoverState
    PROVE  IntegrationInv'
<1>1. TypeOK'
  <2>1. job' \in Jobs /\ pc' \in Places
    BY NoJobIsJob DEF RecoverState, Finish, Goto, Untried, Jobs, Places, IntegrationInv,
       TypeOK
  <2>2. run' \in [Runs -> RunRecords]
    BY DEF RecoverState, RunRecords, IntegrationInv, TypeOK
  <2> QED
    BY <2>1, <2>2 DEF IntegrationInv, TypeOK, Jobs, RunRecords, Places, gitVars, stateVars,
       RecoverState
<1>2. Located'
  BY DEF IntegrationInv, Located, Unmerging, Merging, Committing, Mine, TypeOK, RecoverState,
     Interrupted, Finish, NoJob, gitVars, stateVars, Goto
<1>3. MergedAsJournaled'
  BY DEF IntegrationInv, MergedAsJournaled, Merging, Mine, RecoverState, Interrupted, Finish,
     NoJob, gitVars, stateVars, Goto
<1>4. Undisturbed'
  BY DEF IntegrationInv, Undisturbed, Unmerging, Merging, Committing, DivergenceIsJournaled,
     TypeOK, RecoverState, Interrupted, Finish, NoJob, gitVars, stateVars, Goto, Mine
<1>5. WorkOnBase'
  <2>1. \A r \in Runs : run'[r].impl = run[r].impl /\ run'[r].base = run[r].base
    BY DEF RecoverState, IntegrationInv, TypeOK, stateVars
  <2>2. pc' \in {"recover_clear", "idle"} /\ branch' = branch
    BY DEF RecoverState, Goto, Finish, gitVars
  <2> QED
    BY <2>1, <2>2 DEF IntegrationInv, WorkOnBase, Merging, RecoverState, Mine, gitVars
<1>6. WaitingUsable'
  BY DEF IntegrationInv, WaitingUsable, Merging, Unmerging, Mine, TypeOK, Located,
     RecoverState, Interrupted, Finish, NoJob, gitVars, stateVars, Goto
<1>7. DivergenceIsJournaled'
  BY DEF IntegrationInv, DivergenceIsJournaled, Undisturbed, Unmerging, Committing, Merging,
     TypeOK, Located, RecoverState, Interrupted, Finish, NoJob, gitVars, stateVars, Goto, Mine
<1>8. StableIsInMain'
  BY ContainsItself DEF IntegrationInv, StableIsInMain, Undisturbed, Unmerging, Committing,
     Merging, TypeOK, RecoverState, Interrupted, Finish, NoJob, gitVars, stateVars, Goto, Mine
<1>9. IntegratedOnce'
  <2>1. \A r \in Runs : run'[r].state = "integrated" <=> run[r].state = "integrated"
    BY DEF RecoverState, Interrupted, IntegrationInv, TypeOK
  <2>2. stable' = stable
    BY DEF RecoverState
  <2> QED
    BY <2>1, <2>2 DEF IntegrationInv, IntegratedOnce
<1> QED
  BY <1>1, <1>2, <1>3, <1>4, <1>5, <1>6, <1>7, <1>8, <1>9 DEF IntegrationInv

LEMMA RecoverClearKeeps ==
    ASSUME IntegrationInv, RecoverClear
    PROVE  IntegrationInv'
<1>1. TypeOK'
  BY DEF IntegrationInv, TypeOK, Journals, Tried, Untried, Err, NoJob, Located, RecoverClear,
     gitVars, stateVars, Goto, Mine
<1>2. Located'
  BY DEF IntegrationInv, Located, Unmerging, Merging, Committing, Mine, TypeOK, RecoverClear,
     gitVars, stateVars, Goto
<1>3. MergedAsJournaled'
  BY DEF IntegrationInv, MergedAsJournaled, Merging, Mine, RecoverClear, gitVars, stateVars,
     Goto
<1>4. Undisturbed'
  BY DEF IntegrationInv, Undisturbed, Unmerging, Merging, Committing, DivergenceIsJournaled,
     TypeOK, RecoverClear, gitVars, stateVars, Goto, Mine
<1>5. WorkOnBase'
  BY DEF IntegrationInv, WorkOnBase, Merging, Unmerging, Mine, TypeOK, Located, RecoverClear,
     gitVars, stateVars, Goto
<1>6. WaitingUsable'
  BY DEF IntegrationInv, WaitingUsable, Merging, Unmerging, Mine, TypeOK, Located,
     RecoverClear, gitVars, stateVars, Goto
<1>7. DivergenceIsJournaled'
  BY DEF IntegrationInv, DivergenceIsJournaled, Undisturbed, Unmerging, Committing, Merging,
     TypeOK, Located, RecoverClear, gitVars, stateVars, Goto, Mine
<1>8. StableIsInMain'
  BY ContainsItself DEF IntegrationInv, StableIsInMain, Undisturbed, Unmerging, Committing,
     Merging, TypeOK, RecoverClear, gitVars, stateVars, Goto, Mine
<1>9. IntegratedOnce'
  BY DEF IntegrationInv, IntegratedOnce, TypeOK, Located, RecoverClear, gitVars, stateVars,
     Goto, Mine
<1> QED
  BY <1>1, <1>2, <1>3, <1>4, <1>5, <1>6, <1>7, <1>8, <1>9 DEF IntegrationInv

LEMMA ValidateKeeps ==
    ASSUME IntegrationInv, Validate
    PROVE  IntegrationInv'
<1>1. TypeOK'
  <2>1. job' \in Jobs /\ pc' \in Places
    BY NoJobIsJob DEF Validate, Finish, Goto, Untried, Jobs, Places, IntegrationInv, TypeOK
  <2> QED
    BY <2>1 DEF IntegrationInv, TypeOK, Jobs, RunRecords, Places, gitVars, stateVars, Validate
<1>2. Located'
  BY DEF IntegrationInv, Located, Unmerging, Merging, Committing, Mine, TypeOK, Validate,
     Finish, NoJob, Ready, gitVars, stateVars, Goto
<1>3. MergedAsJournaled'
  BY DEF IntegrationInv, MergedAsJournaled, Merging, Mine, Validate, Finish, NoJob, Ready,
     gitVars, stateVars, Goto
<1>4. Undisturbed'
  BY DEF IntegrationInv, Undisturbed, Unmerging, Merging, Committing, DivergenceIsJournaled,
     TypeOK, Validate, Finish, NoJob, Ready, gitVars, stateVars, Goto, Mine
<1>5. WorkOnBase'
  BY DEF IntegrationInv, WorkOnBase, Merging, Unmerging, Mine, TypeOK, Located, Validate,
     Finish, NoJob, Ready, gitVars, stateVars, Goto
<1>6. WaitingUsable'
  BY DEF IntegrationInv, WaitingUsable, Merging, Unmerging, Mine, TypeOK, Located, Validate,
     Finish, NoJob, Ready, gitVars, stateVars, Goto
<1>7. DivergenceIsJournaled'
  BY DEF IntegrationInv, DivergenceIsJournaled, Undisturbed, Unmerging, Committing, Merging,
     TypeOK, Located, Validate, Finish, NoJob, Ready, gitVars, stateVars, Goto, Mine
<1>8. StableIsInMain'
  BY ContainsItself DEF IntegrationInv, StableIsInMain, Undisturbed, Unmerging, Committing,
     Merging, TypeOK, Validate, Finish, NoJob, Ready, gitVars, stateVars, Goto, Mine
<1>9. IntegratedOnce'
  BY DEF IntegrationInv, IntegratedOnce, TypeOK, Located, Validate, Finish, NoJob, Ready,
     gitVars, stateVars, Goto, Mine
<1> QED
  BY <1>1, <1>2, <1>3, <1>4, <1>5, <1>6, <1>7, <1>8, <1>9 DEF IntegrationInv

LEMMA PrepareKeeps ==
    ASSUME IntegrationInv, Prepare
    PROVE  IntegrationInv'
<1>1. TypeOK'
  <2>1. pc' \in Places
    BY DEF Prepare, Goto, Tried, Untried, Places
  <2>2. journal' \in Journals
    BY WhereRunIs DEF Prepare, Journals, Commits, IntegrationInv, TypeOK
  <2> QED
    BY <2>1, <2>2 DEF IntegrationInv, TypeOK, Jobs, RunRecords, Places, gitVars, stateVars,
       Prepare
<1>2. Located'
  <2>1. journal' \in Journals
    BY WhereRunIs DEF Prepare, Journals, Commits, IntegrationInv, TypeOK, Unmerging, Merging,
       Committing
  <2>2. journal' # NoJournal
    BY <2>1, JournalExists
  <2> QED
    BY <2>1, <2>2, WhatJournalIs DEF IntegrationInv, Located, Prepare, Goto, Mine, Journals,
       Unmerging, Merging, Committing, gitVars, stateVars
<1>3. MergedAsJournaled'
  BY DEF IntegrationInv, MergedAsJournaled, Merging, Mine, Prepare, gitVars, stateVars, Goto
<1>4. Undisturbed'
  BY DEF IntegrationInv, Undisturbed, Unmerging, Merging, Committing, DivergenceIsJournaled,
     TypeOK, Prepare, gitVars, stateVars, Goto, Mine
<1>5. WorkOnBase'
  BY DEF IntegrationInv, WorkOnBase, Merging, Unmerging, Mine, TypeOK, Located, Prepare,
     gitVars, stateVars, Goto
<1>6. WaitingUsable'
  BY DEF IntegrationInv, WaitingUsable, Merging, Unmerging, Mine, TypeOK, Located, Prepare,
     gitVars, stateVars, Goto
<1>7. DivergenceIsJournaled'
  BY DEF IntegrationInv, DivergenceIsJournaled, Undisturbed, Unmerging, Committing, Merging,
     TypeOK, Located, Prepare, gitVars, stateVars, Goto, Mine
<1>8. StableIsInMain'
  BY ContainsItself DEF IntegrationInv, StableIsInMain, Undisturbed, Unmerging, Committing,
     Merging, TypeOK, Prepare, gitVars, stateVars, Goto, Mine
<1>9. IntegratedOnce'
  BY DEF IntegrationInv, IntegratedOnce, TypeOK, Located, Prepare, gitVars, stateVars, Goto,
     Mine
<1> QED
  BY <1>1, <1>2, <1>3, <1>4, <1>5, <1>6, <1>7, <1>8, <1>9 DEF IntegrationInv

LEMMA BeginKeeps ==
    ASSUME IntegrationInv, Begin
    PROVE  IntegrationInv'
<1>1. TypeOK'
  <2>1. job' \in Jobs
    BY DEF Begin, Jobs, IntegrationInv, TypeOK
  <2>2. pc' \in Places
    BY DEF Begin, Goto, Tried, Places
  <2>3. run' \in [Runs -> RunRecords]
    BY DEF Begin, RunRecords, IntegrationInv, TypeOK
  <2> QED
    BY <2>1, <2>2, <2>3 DEF IntegrationInv, TypeOK, Jobs, RunRecords, Places, gitVars,
       stateVars, Begin
<1>2. Located'
  BY DEF IntegrationInv, Located, Unmerging, Merging, Committing, Mine, TypeOK, Begin, Ready,
     gitVars, stateVars, Goto
<1>3. MergedAsJournaled'
  BY DEF IntegrationInv, MergedAsJournaled, Merging, Mine, Begin, Ready, gitVars, stateVars,
     Goto
<1>4. Undisturbed'
  BY DEF IntegrationInv, Undisturbed, Unmerging, Merging, Committing, DivergenceIsJournaled,
     TypeOK, Begin, Ready, gitVars, stateVars, Goto, Mine
<1>5. WorkOnBase'
  <2>1. \A r \in Runs : run'[r].impl = run[r].impl /\ run'[r].base = run[r].base
    BY DEF Begin, IntegrationInv, TypeOK, stateVars
  <2>2. pc' \in {"rebase", "rollback"} /\ branch' = branch
    BY DEF Begin, Goto, Finish, gitVars
  <2> QED
    BY <2>1, <2>2 DEF IntegrationInv, WorkOnBase, Merging, Begin, Mine, gitVars
<1>6. WaitingUsable'
  BY DEF IntegrationInv, WaitingUsable, Merging, Unmerging, Mine, TypeOK, Located, Begin,
     Ready, gitVars, stateVars, Goto
<1>7. DivergenceIsJournaled'
  BY DEF IntegrationInv, DivergenceIsJournaled, Undisturbed, Unmerging, Committing, Merging,
     TypeOK, Located, Begin, Ready, gitVars, stateVars, Goto, Mine
<1>8. StableIsInMain'
  BY ContainsItself DEF IntegrationInv, StableIsInMain, Undisturbed, Unmerging, Committing,
     Merging, TypeOK, Begin, Ready, gitVars, stateVars, Goto, Mine
<1>9. IntegratedOnce'
  <2>1. \A r \in Runs : run'[r].state = "integrated" <=> run[r].state = "integrated"
    BY DEF Begin, Ready, IntegrationInv, TypeOK
  <2>2. stable' = stable
    BY DEF Begin
  <2> QED
    BY <2>1, <2>2 DEF IntegrationInv, IntegratedOnce
<1> QED
  BY <1>1, <1>2, <1>3, <1>4, <1>5, <1>6, <1>7, <1>8, <1>9 DEF IntegrationInv

LEMMA RebaseKeeps ==
    ASSUME IntegrationInv, Rebase
    PROVE  IntegrationInv'
<1>1. TypeOK'
  <2>1. pc' \in Places
    BY DEF Rebase, Goto, Tried, Places
  <2>2. Mine \in Runs /\ job.previous \in Commits
    BY WhereRunIs DEF Rebase, IntegrationInv, TypeOK
  <2>3. Append(job.previous, Mine) \in Commits
    BY <2>2 DEF Commits
  <2>4. branch' \in [Runs -> Commits]
    BY <2>3 DEF Rebase, IntegrationInv, TypeOK
  <2> QED
    BY <2>1, <2>2, <2>3, <2>4 DEF IntegrationInv, TypeOK, Jobs, RunRecords, Places, gitVars,
       stateVars, Rebase
<1>2. Located'
  BY DEF IntegrationInv, Located, Unmerging, Merging, Committing, Mine, TypeOK, Rebase,
     gitVars, stateVars, Goto
<1>3. MergedAsJournaled'
  BY DEF IntegrationInv, MergedAsJournaled, Merging, Mine, Rebase, gitVars, stateVars, Goto
<1>4. Undisturbed'
  BY DEF IntegrationInv, Undisturbed, Unmerging, Merging, Committing, DivergenceIsJournaled,
     TypeOK, Rebase, gitVars, stateVars, Goto, Mine
<1>5. WorkOnBase'
  BY DEF IntegrationInv, WorkOnBase, Merging, Unmerging, Mine, TypeOK, Located, Rebase,
     gitVars, stateVars, Goto
<1>6. WaitingUsable'
  <2>1. Mine \in Runs /\ run[Mine].state = "integrating" /\ journal.stage # "merged"
    BY WhereRunIs DEF IntegrationInv, WaitingUsable, Located, Unmerging, Rebase
  <2>2. \A r \in Runs \ {Mine} : branch'[r] = branch[r]
    BY DEF IntegrationInv, TypeOK, Rebase
  <2>3. pc' \in {"journal_rebased", "record"} /\ Mine' = Mine
    BY DEF Rebase, Goto, Mine
  <2> QED
    BY <2>1, <2>2, <2>3 DEF IntegrationInv, WaitingUsable, Rebase, stateVars
<1>7. DivergenceIsJournaled'
  BY DEF IntegrationInv, DivergenceIsJournaled, Undisturbed, Unmerging, Committing, Merging,
     TypeOK, Located, Rebase, gitVars, stateVars, Goto, Mine
<1>8. StableIsInMain'
  BY ContainsItself DEF IntegrationInv, StableIsInMain, Undisturbed, Unmerging, Committing,
     Merging, TypeOK, Rebase, gitVars, stateVars, Goto, Mine
<1>9. IntegratedOnce'
  BY DEF IntegrationInv, IntegratedOnce, TypeOK, Located, Rebase, gitVars, stateVars, Goto,
     Mine
<1> QED
  BY <1>1, <1>2, <1>3, <1>4, <1>5, <1>6, <1>7, <1>8, <1>9 DEF IntegrationInv

LEMMA RecordKeeps ==
    ASSUME IntegrationInv, Record
    PROVE  IntegrationInv'
<1>1. TypeOK'
  BY DEF IntegrationInv, TypeOK, Journals, Tried, Untried, Err, NoJob, Located, Record,
     gitVars, stateVars, Goto, Mine
<1>2. Located'
  BY DEF IntegrationInv, Located, Unmerging, Merging, Committing, Mine, TypeOK, Record,
     gitVars, stateVars, Goto
<1>3. MergedAsJournaled'
  BY DEF IntegrationInv, MergedAsJournaled, Merging, Mine, Record, gitVars, stateVars, Goto
<1>4. Undisturbed'
  BY DEF IntegrationInv, Undisturbed, Unmerging, Merging, Committing, DivergenceIsJournaled,
     TypeOK, Record, gitVars, stateVars, Goto, Mine
<1>5. WorkOnBase'
  <2>1. Mine \in Runs /\ branch[Mine] = Append(job.previous, Mine)
    BY WhereRunIs DEF IntegrationInv, WorkOnBase, Record
  <2>2. CASE run' = run /\ pc' = "rollback"
    BY <2>2 DEF IntegrationInv, WorkOnBase, Merging
  <2>3. CASE /\ run' = [run EXCEPT ![Mine].base = job.previous, ![Mine].impl = branch[Mine]]
             /\ pc' = "journal_rebased"
    <3>1. run'[Mine].impl = branch[Mine] /\ run'[Mine].base = job.previous
      BY <2>1, <2>3 DEF IntegrationInv, TypeOK
    <3>2. \A r \in Runs \ {Mine} : run'[r] = run[r]
      BY <2>3 DEF IntegrationInv, TypeOK
    <3>3. Mine' = Mine /\ job' = job
      BY DEF Record, Mine
    <3> QED
      BY <2>1, <2>3, <3>1, <3>2, <3>3 DEF IntegrationInv, WorkOnBase
  <2> QED
    BY <2>2, <2>3 DEF Record, Goto
<1>6. WaitingUsable'
  BY DEF IntegrationInv, WaitingUsable, Merging, Unmerging, Mine, TypeOK, Located, Record,
     gitVars, stateVars, Goto
<1>7. DivergenceIsJournaled'
  BY DEF IntegrationInv, DivergenceIsJournaled, Undisturbed, Unmerging, Committing, Merging,
     TypeOK, Located, Record, gitVars, stateVars, Goto, Mine
<1>8. StableIsInMain'
  BY ContainsItself DEF IntegrationInv, StableIsInMain, Undisturbed, Unmerging, Committing,
     Merging, TypeOK, Record, gitVars, stateVars, Goto, Mine
<1>9. IntegratedOnce'
  <2>1. \A r \in Runs : run'[r].state = "integrated" <=> run[r].state = "integrated"
    BY DEF Record, IntegrationInv, TypeOK
  <2>2. stable' = stable
    BY DEF Record
  <2> QED
    BY <2>1, <2>2 DEF IntegrationInv, IntegratedOnce
<1> QED
  BY <1>1, <1>2, <1>3, <1>4, <1>5, <1>6, <1>7, <1>8, <1>9 DEF IntegrationInv

LEMMA JournalRebasedKeeps ==
    ASSUME IntegrationInv, JournalRebased
    PROVE  IntegrationInv'
<1>1. TypeOK'
  <2>1. pc' \in Places
    BY DEF JournalRebased, Goto, Tried, Untried, Places
  <2>2. journal' \in Journals
    BY WhereRunIs, WhatJournalIs DEF JournalRebased, Journals, Commits, IntegrationInv,
       TypeOK, Unmerging, Merging, Committing
  <2> QED
    BY <2>1, <2>2 DEF IntegrationInv, TypeOK, Jobs, RunRecords, Places, gitVars, stateVars,
       JournalRebased
<1>2. Located'
  <2>1. journal' \in Journals
    BY WhereRunIs, WhatJournalIs DEF JournalRebased, Journals, Commits, IntegrationInv,
       TypeOK, Unmerging, Merging, Committing
  <2>2. journal' # NoJournal
    BY <2>1, JournalExists
  <2> QED
    BY <2>1, <2>2, WhatJournalIs DEF IntegrationInv, Located, JournalRebased, Goto, Mine,
       Journals, Unmerging, Merging, Committing, gitVars, stateVars
<1>3. MergedAsJournaled'
  BY DEF IntegrationInv, MergedAsJournaled, Merging, Mine, JournalRebased, gitVars, stateVars,
     Goto
<1>4. Undisturbed'
  BY DEF IntegrationInv, Undisturbed, Unmerging, Merging, Committing, DivergenceIsJournaled,
     TypeOK, JournalRebased, gitVars, stateVars, Goto, Mine
<1>5. WorkOnBase'
  BY DEF IntegrationInv, WorkOnBase, Merging, Unmerging, Mine, TypeOK, Located,
     JournalRebased, gitVars, stateVars, Goto
<1>6. WaitingUsable'
  BY DEF IntegrationInv, WaitingUsable, Merging, Unmerging, Mine, TypeOK, Located,
     JournalRebased, gitVars, stateVars, Goto
<1>7. DivergenceIsJournaled'
  BY DEF IntegrationInv, DivergenceIsJournaled, Undisturbed, Unmerging, Committing, Merging,
     TypeOK, Located, JournalRebased, gitVars, stateVars, Goto, Mine
<1>8. StableIsInMain'
  BY ContainsItself DEF IntegrationInv, StableIsInMain, Undisturbed, Unmerging, Committing,
     Merging, TypeOK, JournalRebased, gitVars, stateVars, Goto, Mine
<1>9. IntegratedOnce'
  BY DEF IntegrationInv, IntegratedOnce, TypeOK, Located, JournalRebased, gitVars, stateVars,
     Goto, Mine
<1> QED
  BY <1>1, <1>2, <1>3, <1>4, <1>5, <1>6, <1>7, <1>8, <1>9 DEF IntegrationInv

LEMMA MergeKeeps ==
    ASSUME IntegrationInv, Merge
    PROVE  IntegrationInv'
<1>1. TypeOK'
  <2>1. job' \in Jobs /\ pc' \in Places
    BY DEF Merge, Goto, Tried, Jobs, Places, IntegrationInv, TypeOK
  <2>2. main' \in Commits
    BY WhereRunIs DEF Merge, IntegrationInv, TypeOK
  <2> QED
    BY <2>1, <2>2 DEF IntegrationInv, TypeOK, Jobs, RunRecords, Places, gitVars, stateVars,
       Merge
<1>2. Located'
  BY DEF IntegrationInv, Located, Unmerging, Merging, Committing, Mine, TypeOK, Merge,
     Mergeable, gitVars, stateVars, Goto
<1>3. MergedAsJournaled'
  <2>1. CASE Mergeable
    <3>1. main' = branch[Mine] /\ job' = [job EXCEPT !.merged = TRUE]
          /\ pc' \in {"journal_merged", "rollback"}
      BY <2>1 DEF Merge, Goto
    <3>2. job'.merged /\ job'.previous = job.previous
      BY <3>1 DEF IntegrationInv, TypeOK
    <3>3. Contains(main', job'.previous)
      BY <2>1, <3>1, <3>2 DEF Mergeable
    <3> QED
      BY <3>1, <3>2, <3>3 DEF MergedAsJournaled, Contains
  <2>2. CASE ~Mergeable
    BY <2>2 DEF Merge, Goto, MergedAsJournaled, Merging
  <2> QED
    BY <2>1, <2>2
<1>4. Undisturbed'
  BY DEF IntegrationInv, Undisturbed, Unmerging, Merging, Committing, DivergenceIsJournaled,
     TypeOK, Merge, Mergeable, gitVars, stateVars, Goto, Mine
<1>5. WorkOnBase'
  BY DEF IntegrationInv, WorkOnBase, Merging, Unmerging, Mine, TypeOK, Located, Merge,
     Mergeable, gitVars, stateVars, Goto
<1>6. WaitingUsable'
  BY DEF IntegrationInv, WaitingUsable, Merging, Unmerging, Mine, TypeOK, Located, Merge,
     Mergeable, gitVars, stateVars, Goto
<1>7. DivergenceIsJournaled'
  BY DEF IntegrationInv, DivergenceIsJournaled, Undisturbed, Unmerging, Committing, Merging,
     TypeOK, Located, Merge, Mergeable, gitVars, stateVars, Goto, Mine
<1>8. StableIsInMain'
  BY ContainsItself DEF IntegrationInv, StableIsInMain, Undisturbed, Unmerging, Committing,
     Merging, TypeOK, Merge, Mergeable, gitVars, stateVars, Goto, Mine
<1>9. IntegratedOnce'
  BY DEF IntegrationInv, IntegratedOnce, TypeOK, Located, Merge, Mergeable, gitVars,
     stateVars, Goto, Mine
<1> QED
  BY <1>1, <1>2, <1>3, <1>4, <1>5, <1>6, <1>7, <1>8, <1>9 DEF IntegrationInv

LEMMA JournalMergedKeeps ==
    ASSUME IntegrationInv, JournalMerged
    PROVE  IntegrationInv'
<1>1. TypeOK'
  <2>1. pc' \in Places
    BY DEF JournalMerged, Goto, Tried, Untried, Places
  <2>2. journal' \in Journals
    BY WhereRunIs, WhatJournalIs DEF JournalMerged, Journals, Commits, IntegrationInv, TypeOK,
       Unmerging, Merging, Committing
  <2> QED
    BY <2>1, <2>2 DEF IntegrationInv, TypeOK, Jobs, RunRecords, Places, gitVars, stateVars,
       JournalMerged
<1>2. Located'
  <2>1. journal' \in Journals
    BY WhereRunIs, WhatJournalIs DEF JournalMerged, Journals, Commits, IntegrationInv, TypeOK,
       Unmerging, Merging, Committing
  <2>2. journal' # NoJournal
    BY <2>1, JournalExists
  <2> QED
    BY <2>1, <2>2, WhatJournalIs DEF IntegrationInv, Located, JournalMerged, Goto, Mine,
       Journals, Unmerging, Merging, Committing, gitVars, stateVars
<1>3. MergedAsJournaled'
  BY DEF IntegrationInv, MergedAsJournaled, Merging, Mine, JournalMerged, gitVars, stateVars,
     Goto
<1>4. Undisturbed'
  BY DEF IntegrationInv, Undisturbed, Unmerging, Merging, Committing, DivergenceIsJournaled,
     TypeOK, JournalMerged, gitVars, stateVars, Goto, Mine
<1>5. WorkOnBase'
  BY DEF IntegrationInv, WorkOnBase, Merging, Unmerging, Mine, TypeOK, Located, JournalMerged,
     gitVars, stateVars, Goto
<1>6. WaitingUsable'
  BY DEF IntegrationInv, WaitingUsable, Merging, Unmerging, Mine, TypeOK, Located,
     JournalMerged, gitVars, stateVars, Goto
<1>7. DivergenceIsJournaled'
  <2>1. pc' = "test"
    BY DEF JournalMerged, Goto
  <2> QED
    BY <1>2, <2>1 DEF Located, Merging, DivergenceIsJournaled
<1>8. StableIsInMain'
  BY ContainsItself DEF IntegrationInv, StableIsInMain, Undisturbed, Unmerging, Committing,
     Merging, TypeOK, JournalMerged, gitVars, stateVars, Goto, Mine
<1>9. IntegratedOnce'
  BY DEF IntegrationInv, IntegratedOnce, TypeOK, Located, JournalMerged, gitVars, stateVars,
     Goto, Mine
<1> QED
  BY <1>1, <1>2, <1>3, <1>4, <1>5, <1>6, <1>7, <1>8, <1>9 DEF IntegrationInv

LEMMA TestKeeps ==
    ASSUME IntegrationInv, Test
    PROVE  IntegrationInv'
<1>1. TypeOK'
  BY DEF IntegrationInv, TypeOK, Journals, Tried, Untried, Err, NoJob, Located, Test, gitVars,
     stateVars, Goto, Mine
<1>2. Located'
  BY DEF IntegrationInv, Located, Unmerging, Merging, Committing, Mine, TypeOK, Test, gitVars,
     stateVars, Goto
<1>3. MergedAsJournaled'
  BY DEF IntegrationInv, MergedAsJournaled, Merging, Mine, Test, gitVars, stateVars, Goto
<1>4. Undisturbed'
  BY DEF IntegrationInv, Undisturbed, MergedAsJournaled, Merging, Unmerging, Committing, Test,
     Goto, gitVars, stateVars
<1>5. WorkOnBase'
  BY DEF IntegrationInv, WorkOnBase, Merging, Unmerging, Mine, TypeOK, Located, Test, gitVars,
     stateVars, Goto
<1>6. WaitingUsable'
  BY DEF IntegrationInv, WaitingUsable, Merging, Unmerging, Mine, TypeOK, Located, Test,
     gitVars, stateVars, Goto
<1>7. DivergenceIsJournaled'
  BY DEF IntegrationInv, DivergenceIsJournaled, Undisturbed, Unmerging, Committing, Merging,
     TypeOK, Located, Test, gitVars, stateVars, Goto, Mine
<1>8. StableIsInMain'
  BY ContainsItself DEF IntegrationInv, StableIsInMain, Undisturbed, Unmerging, Committing,
     Merging, TypeOK, Test, gitVars, stateVars, Goto, Mine
<1>9. IntegratedOnce'
  BY DEF IntegrationInv, IntegratedOnce, TypeOK, Located, Test, gitVars, stateVars, Goto, Mine
<1> QED
  BY <1>1, <1>2, <1>3, <1>4, <1>5, <1>6, <1>7, <1>8, <1>9 DEF IntegrationInv

LEMMA FinalizeKeeps ==
    ASSUME IntegrationInv, Finalize
    PROVE  IntegrationInv'
<1>1. TypeOK'
  BY DEF IntegrationInv, TypeOK, Journals, Tried, Untried, Err, NoJob, Located, Finalize,
     gitVars, stateVars, Goto, Mine
<1>2. Located'
  BY DEF IntegrationInv, Located, Unmerging, Merging, Committing, Mine, TypeOK, Finalize,
     gitVars, stateVars, Goto
<1>3. MergedAsJournaled'
  BY DEF IntegrationInv, MergedAsJournaled, Merging, Mine, Finalize, gitVars, stateVars, Goto
<1>4. Undisturbed'
  <2>1. journal.integration = main /\ job.merged
    BY DEF IntegrationInv, MergedAsJournaled, Merging, Finalize
  <2>2. UNCHANGED <<main, job, faults>>
    BY DEF Finalize, gitVars
  <2>3. CASE pc' = "journal_committed" /\ stable' = main
    BY <2>2, <2>3 DEF Undisturbed, Unmerging, Merging, Committing
  <2>4. CASE pc' = "rollback" /\ stable' = stable
    BY <2>1, <2>2, <2>4 DEF IntegrationInv, Undisturbed, Unmerging, Merging, Committing,
       Finalize
  <2> QED
    BY <2>1, <2>3, <2>4 DEF Finalize, Goto, stateVars
<1>5. WorkOnBase'
  <2>1. \A r \in Runs : run'[r].impl = run[r].impl /\ run'[r].base = run[r].base
    BY DEF Finalize, IntegrationInv, TypeOK, stateVars
  <2>2. pc' \in {"journal_committed", "rollback"} /\ branch' = branch
    BY DEF Finalize, Goto, Finish, gitVars
  <2> QED
    BY <2>1, <2>2 DEF IntegrationInv, WorkOnBase, Merging, Finalize, Mine, gitVars
<1>6. WaitingUsable'
  BY DEF IntegrationInv, WaitingUsable, Merging, Unmerging, Mine, TypeOK, Located, Finalize,
     gitVars, stateVars, Goto
<1>7. DivergenceIsJournaled'
  BY DEF IntegrationInv, DivergenceIsJournaled, Undisturbed, Unmerging, Committing, Merging,
     TypeOK, Located, Finalize, gitVars, stateVars, Goto, Mine
<1>8. StableIsInMain'
  <2>1. journal.integration = main /\ main \in Commits
    BY DEF IntegrationInv, TypeOK, MergedAsJournaled, Finalize
  <2>2. main' = main /\ faults' = faults /\ (stable' = stable \/ stable' = main)
    BY <2>1 DEF Finalize, gitVars, stateVars
  <2>3. Contains(main, main)
    BY <2>1, ContainsItself
  <2> QED
    BY <2>2, <2>3 DEF IntegrationInv, StableIsInMain, Contains
<1>9. IntegratedOnce'
  <2>1. CASE UNCHANGED stateVars
    BY <2>1 DEF IntegrationInv, IntegratedOnce, stateVars
  <2>2. CASE /\ run' = [run EXCEPT ![Mine].state = "integrated"]
             /\ stable' = journal.integration /\ stable = job.previous
             /\ journal.integration = run[Mine].impl /\ run[Mine].state = "integrating"
    <3>1. Mine \in Runs /\ stable \in Seq(Runs)
      BY WhereRunIs DEF IntegrationInv, TypeOK, Commits, Finalize
    <3>2. stable' = Append(stable, Mine)
      BY <2>2, <3>1 DEF IntegrationInv, WorkOnBase, Merging, Finalize
    <3>3. /\ run'[Mine].state = "integrated"
          /\ \A r \in Runs \ {Mine} : run'[r].state = run[r].state
      BY <2>2, <3>1 DEF IntegrationInv, TypeOK
    <3>4. Len(stable') = Len(stable) + 1 /\ Len(stable) \in Nat
      BY <3>1, <3>2
    <3>5. /\ stable'[Len(stable) + 1] = Mine
          /\ \A i \in 1..Len(stable) : stable'[i] = stable[i]
      BY <3>1, <3>2
    <3>6. {i \in 1..Len(stable) : stable[i] = Mine} = {}
      BY <2>2, <3>1 DEF IntegrationInv, IntegratedOnce
    <3>7. {i \in 1..Len(stable') : stable'[i] = Mine} = {Len(stable) + 1}
      BY <3>4, <3>5, <3>6
    <3>8. ASSUME NEW r \in Runs \ {Mine}
          PROVE  {i \in 1..Len(stable') : stable'[i] = r} = {i \in 1..Len(stable) : stable[i] = r}
      BY <3>4, <3>5
    <3> QED
      BY <3>3, <3>7, <3>8 DEF IntegrationInv, IntegratedOnce
  <2> QED
    BY <2>1, <2>2 DEF Finalize
<1> QED
  BY <1>1, <1>2, <1>3, <1>4, <1>5, <1>6, <1>7, <1>8, <1>9 DEF IntegrationInv

LEMMA JournalCommittedKeeps ==
    ASSUME IntegrationInv, JournalCommitted
    PROVE  IntegrationInv'
<1>1. TypeOK'
  <2>1. pc' \in Places
    BY DEF JournalCommitted, Goto, Tried, Untried, Places
  <2>2. journal' \in Journals
    BY WhereRunIs, WhatJournalIs DEF JournalCommitted, Journals, Commits, IntegrationInv,
       TypeOK, Unmerging, Merging, Committing
  <2> QED
    BY <2>1, <2>2 DEF IntegrationInv, TypeOK, Jobs, RunRecords, Places, gitVars, stateVars,
       JournalCommitted
<1>2. Located'
  <2>1. journal' \in Journals
    BY WhereRunIs, WhatJournalIs DEF JournalCommitted, Journals, Commits, IntegrationInv,
       TypeOK, Unmerging, Merging, Committing
  <2>2. journal' # NoJournal
    BY <2>1, JournalExists
  <2> QED
    BY <2>1, <2>2, WhatJournalIs DEF IntegrationInv, Located, JournalCommitted, Goto, Mine,
       Journals, Unmerging, Merging, Committing, gitVars, stateVars
<1>3. MergedAsJournaled'
  BY DEF IntegrationInv, MergedAsJournaled, Merging, Mine, JournalCommitted, gitVars,
     stateVars, Goto
<1>4. Undisturbed'
  BY DEF IntegrationInv, Undisturbed, Unmerging, Merging, Committing, DivergenceIsJournaled,
     TypeOK, JournalCommitted, gitVars, stateVars, Goto, Mine
<1>5. WorkOnBase'
  BY DEF IntegrationInv, WorkOnBase, Merging, Unmerging, Mine, TypeOK, Located,
     JournalCommitted, gitVars, stateVars, Goto
<1>6. WaitingUsable'
  BY DEF IntegrationInv, WaitingUsable, Merging, Unmerging, Mine, TypeOK, Located,
     JournalCommitted, gitVars, stateVars, Goto
<1>7. DivergenceIsJournaled'
  BY DEF IntegrationInv, DivergenceIsJournaled, Undisturbed, Unmerging, Committing, Merging,
     TypeOK, Located, JournalCommitted, gitVars, stateVars, Goto, Mine
<1>8. StableIsInMain'
  BY ContainsItself DEF IntegrationInv, StableIsInMain, Undisturbed, Unmerging, Committing,
     Merging, TypeOK, JournalCommitted, gitVars, stateVars, Goto, Mine
<1>9. IntegratedOnce'
  BY DEF IntegrationInv, IntegratedOnce, TypeOK, Located, JournalCommitted, gitVars,
     stateVars, Goto, Mine
<1> QED
  BY <1>1, <1>2, <1>3, <1>4, <1>5, <1>6, <1>7, <1>8, <1>9 DEF IntegrationInv

LEMMA ClearKeeps ==
    ASSUME IntegrationInv, Clear
    PROVE  IntegrationInv'
<1>1. TypeOK'
  <2>1. job' \in Jobs /\ pc' \in Places
    BY NoJobIsJob DEF Clear, Finish, Places
  <2> QED
    BY <2>1 DEF IntegrationInv, TypeOK, Jobs, RunRecords, Places, gitVars, stateVars, Clear,
       Finish
<1>2. Located'
  BY DEF IntegrationInv, Located, Unmerging, Merging, Committing, Mine, TypeOK, Clear, Finish,
     NoJob, gitVars, stateVars, Goto
<1>3. MergedAsJournaled'
  BY DEF IntegrationInv, MergedAsJournaled, Merging, Mine, Clear, Finish, NoJob, gitVars,
     stateVars, Goto
<1>4. Undisturbed'
  BY DEF IntegrationInv, Undisturbed, Unmerging, Merging, Committing, DivergenceIsJournaled,
     TypeOK, Clear, Finish, NoJob, gitVars, stateVars, Goto, Mine
<1>5. WorkOnBase'
  BY DEF IntegrationInv, WorkOnBase, Merging, Unmerging, Mine, TypeOK, Located, Clear, Finish,
     NoJob, gitVars, stateVars, Goto
<1>6. WaitingUsable'
  BY DEF IntegrationInv, WaitingUsable, Merging, Unmerging, Mine, TypeOK, Located, Clear,
     Finish, NoJob, gitVars, stateVars, Goto
<1>7. DivergenceIsJournaled'
  BY DEF IntegrationInv, DivergenceIsJournaled, Undisturbed, Unmerging, Committing, Merging,
     TypeOK, Located, Clear, Finish, NoJob, gitVars, stateVars, Goto, Mine
<1>8. StableIsInMain'
  BY ContainsItself DEF IntegrationInv, StableIsInMain, Undisturbed, Unmerging, Committing,
     Merging, TypeOK, Clear, Finish, NoJob, gitVars, stateVars, Goto, Mine
<1>9. IntegratedOnce'
  BY DEF IntegrationInv, IntegratedOnce, TypeOK, Located, Clear, Finish, NoJob, gitVars,
     stateVars, Goto, Mine
<1> QED
  BY <1>1, <1>2, <1>3, <1>4, <1>5, <1>6, <1>7, <1>8, <1>9 DEF IntegrationInv

LEMMA RollbackMergeKeeps ==
    ASSUME IntegrationInv, RollbackMerge
    PROVE  IntegrationInv'
<1>1. TypeOK'
  BY DEF IntegrationInv, TypeOK, Journals, Tried, Untried, Err, NoJob, Located, RollbackMerge,
     gitVars, stateVars, Goto, Mine
<1>2. Located'
  BY DEF IntegrationInv, Located, Unmerging, Merging, Committing, Mine, TypeOK, RollbackMerge,
     gitVars, stateVars, Goto
<1>3. MergedAsJournaled'
  BY DEF IntegrationInv, MergedAsJournaled, Merging, Mine, RollbackMerge, gitVars, stateVars,
     Goto
<1>4. Undisturbed'
  BY DEF IntegrationInv, Undisturbed, Unmerging, Merging, Committing, DivergenceIsJournaled,
     TypeOK, RollbackMerge, gitVars, stateVars, Goto, Mine
<1>5. WorkOnBase'
  BY DEF IntegrationInv, WorkOnBase, Merging, Unmerging, Mine, TypeOK, Located, RollbackMerge,
     gitVars, stateVars, Goto
<1>6. WaitingUsable'
  BY DEF IntegrationInv, WaitingUsable, Merging, Unmerging, Mine, TypeOK, Located,
     RollbackMerge, gitVars, stateVars, Goto
<1>7. DivergenceIsJournaled'
  BY DEF IntegrationInv, DivergenceIsJournaled, Undisturbed, Unmerging, Committing, Merging,
     TypeOK, Located, RollbackMerge, gitVars, stateVars, Goto, Mine
<1>8. StableIsInMain'
  BY ContainsItself DEF IntegrationInv, StableIsInMain, Undisturbed, Unmerging, Committing,
     Merging, TypeOK, RollbackMerge, gitVars, stateVars, Goto, Mine
<1>9. IntegratedOnce'
  BY DEF IntegrationInv, IntegratedOnce, TypeOK, Located, RollbackMerge, gitVars, stateVars,
     Goto, Mine
<1> QED
  BY <1>1, <1>2, <1>3, <1>4, <1>5, <1>6, <1>7, <1>8, <1>9 DEF IntegrationInv

LEMMA RollbackBranchKeeps ==
    ASSUME IntegrationInv, RollbackBranch
    PROVE  IntegrationInv'
<1>1. TypeOK'
  BY DEF IntegrationInv, TypeOK, Journals, Tried, Untried, Err, NoJob, Located,
     RollbackBranch, gitVars, stateVars, Goto, Mine
<1>2. Located'
  BY DEF IntegrationInv, Located, Unmerging, Merging, Committing, Mine, TypeOK,
     RollbackBranch, gitVars, stateVars, Goto
<1>3. MergedAsJournaled'
  BY DEF IntegrationInv, MergedAsJournaled, Merging, Mine, RollbackBranch, gitVars, stateVars,
     Goto
<1>4. Undisturbed'
  BY DEF IntegrationInv, Undisturbed, Unmerging, Merging, Committing, DivergenceIsJournaled,
     TypeOK, RollbackBranch, gitVars, stateVars, Goto, Mine
<1>5. WorkOnBase'
  BY DEF IntegrationInv, WorkOnBase, Merging, Unmerging, Mine, TypeOK, Located,
     RollbackBranch, gitVars, stateVars, Goto
<1>6. WaitingUsable'
  BY DEF IntegrationInv, WaitingUsable, Merging, Unmerging, Mine, TypeOK, Located,
     RollbackBranch, gitVars, stateVars, Goto
<1>7. DivergenceIsJournaled'
  BY DEF IntegrationInv, DivergenceIsJournaled, Undisturbed, Unmerging, Committing, Merging,
     TypeOK, Located, RollbackBranch, gitVars, stateVars, Goto, Mine
<1>8. StableIsInMain'
  BY ContainsItself DEF IntegrationInv, StableIsInMain, Undisturbed, Unmerging, Committing,
     Merging, TypeOK, RollbackBranch, gitVars, stateVars, Goto, Mine
<1>9. IntegratedOnce'
  BY DEF IntegrationInv, IntegratedOnce, TypeOK, Located, RollbackBranch, gitVars, stateVars,
     Goto, Mine
<1> QED
  BY <1>1, <1>2, <1>3, <1>4, <1>5, <1>6, <1>7, <1>8, <1>9 DEF IntegrationInv

LEMMA RollbackClearKeeps ==
    ASSUME IntegrationInv, RollbackClear
    PROVE  IntegrationInv'
<1>1. TypeOK'
  BY DEF IntegrationInv, TypeOK, Journals, Tried, Untried, Err, NoJob, Located, RollbackClear,
     gitVars, stateVars, Goto, Mine
<1>2. Located'
  BY DEF IntegrationInv, Located, Unmerging, Merging, Committing, Mine, TypeOK, RollbackClear,
     gitVars, stateVars, Goto
<1>3. MergedAsJournaled'
  BY DEF IntegrationInv, MergedAsJournaled, Merging, Mine, RollbackClear, gitVars, stateVars,
     Goto
<1>4. Undisturbed'
  BY DEF IntegrationInv, Undisturbed, Unmerging, Merging, Committing, DivergenceIsJournaled,
     TypeOK, RollbackClear, gitVars, stateVars, Goto, Mine
<1>5. WorkOnBase'
  BY DEF IntegrationInv, WorkOnBase, Merging, Unmerging, Mine, TypeOK, Located, RollbackClear,
     gitVars, stateVars, Goto
<1>6. WaitingUsable'
  BY DEF IntegrationInv, WaitingUsable, Merging, Unmerging, Mine, TypeOK, Located,
     RollbackClear, gitVars, stateVars, Goto
<1>7. DivergenceIsJournaled'
  BY DEF IntegrationInv, DivergenceIsJournaled, Undisturbed, Unmerging, Committing, Merging,
     TypeOK, Located, RollbackClear, gitVars, stateVars, Goto, Mine
<1>8. StableIsInMain'
  BY ContainsItself DEF IntegrationInv, StableIsInMain, Undisturbed, Unmerging, Committing,
     Merging, TypeOK, RollbackClear, gitVars, stateVars, Goto, Mine
<1>9. IntegratedOnce'
  BY DEF IntegrationInv, IntegratedOnce, TypeOK, Located, RollbackClear, gitVars, stateVars,
     Goto, Mine
<1> QED
  BY <1>1, <1>2, <1>3, <1>4, <1>5, <1>6, <1>7, <1>8, <1>9 DEF IntegrationInv

LEMMA FailRunKeeps ==
    ASSUME IntegrationInv, FailRun
    PROVE  IntegrationInv'
<1>1. TypeOK'
  <2>1. job' \in Jobs /\ pc' \in Places
    BY NoJobIsJob DEF FailRun, Finish, Places
  <2>2. run' \in [Runs -> RunRecords]
    BY DEF FailRun, RunRecords, IntegrationInv, TypeOK
  <2>3. task' \in [Runs -> {"ready_to_integrate", "integrated", "blocked", "cancelled"}]
    BY DEF FailRun, IntegrationInv, TypeOK
  <2> QED
    BY <2>1, <2>2, <2>3 DEF IntegrationInv, TypeOK, Jobs, RunRecords, Places, gitVars,
       stateVars, FailRun
<1>2. Located'
  BY DEF IntegrationInv, Located, Unmerging, Merging, Committing, Mine, TypeOK, FailRun,
     Finish, NoJob, gitVars, stateVars, Goto
<1>3. MergedAsJournaled'
  BY DEF IntegrationInv, MergedAsJournaled, Merging, Mine, FailRun, Finish, NoJob, gitVars,
     stateVars, Goto
<1>4. Undisturbed'
  BY DEF IntegrationInv, Undisturbed, Unmerging, Merging, Committing, DivergenceIsJournaled,
     TypeOK, FailRun, Finish, NoJob, gitVars, stateVars, Goto, Mine
<1>5. WorkOnBase'
  <2>1. \A r \in Runs : run'[r].impl = run[r].impl /\ run'[r].base = run[r].base
    BY DEF FailRun, IntegrationInv, TypeOK, stateVars
  <2>2. pc' = "idle" /\ branch' = branch
    BY DEF FailRun, Goto, Finish, gitVars
  <2> QED
    BY <2>1, <2>2 DEF IntegrationInv, WorkOnBase, Merging, FailRun, Mine, gitVars
<1>6. WaitingUsable'
  <2>1. \A r \in Runs : /\ run'[r].impl = run[r].impl
                        /\ run'[r].state = run[r].state \/ run'[r].state = "blocked"
    BY DEF FailRun, IntegrationInv, TypeOK
  <2>2. pc' = "idle" /\ branch' = branch /\ journal' = journal
    BY DEF FailRun, Finish, gitVars
  <2>3. journal # NoJournal => journal.run \in Runs
    BY WhatJournalIs DEF Journals
  <2> QED
    BY <2>1, <2>2, <2>3 DEF IntegrationInv, WaitingUsable, Merging
<1>7. DivergenceIsJournaled'
  BY DEF IntegrationInv, DivergenceIsJournaled, Undisturbed, Unmerging, Committing, Merging,
     TypeOK, Located, FailRun, Finish, NoJob, gitVars, stateVars, Goto, Mine
<1>8. StableIsInMain'
  BY ContainsItself DEF IntegrationInv, StableIsInMain, Undisturbed, Unmerging, Committing,
     Merging, TypeOK, FailRun, Finish, NoJob, gitVars, stateVars, Goto, Mine
<1>9. IntegratedOnce'
  <2>1. \A r \in Runs : run'[r].state = "integrated" <=> run[r].state = "integrated"
    BY DEF FailRun, IntegrationInv, TypeOK
  <2>2. stable' = stable
    BY DEF FailRun
  <2> QED
    BY <2>1, <2>2 DEF IntegrationInv, IntegratedOnce
<1> QED
  BY <1>1, <1>2, <1>3, <1>4, <1>5, <1>6, <1>7, <1>8, <1>9 DEF IntegrationInv

LEMMA RaiseKeeps ==
    ASSUME IntegrationInv, Raise
    PROVE  IntegrationInv'
<1>1. TypeOK'
  BY DEF IntegrationInv, TypeOK, Journals, Tried, Untried, Err, NoJob, Located, Raise,
     gitVars, stateVars, Goto, Mine
<1>2. Located'
  BY DEF IntegrationInv, Located, Unmerging, Merging, Committing, Mine, TypeOK, Raise, Err,
     Tried, gitVars, stateVars, Goto
<1>3. MergedAsJournaled'
  BY DEF IntegrationInv, MergedAsJournaled, Merging, Mine, Raise, Err, Tried, gitVars,
     stateVars, Goto
<1>4. Undisturbed'
  BY DEF IntegrationInv, Undisturbed, Unmerging, Merging, Committing, DivergenceIsJournaled,
     TypeOK, Raise, Err, Tried, gitVars, stateVars, Goto, Mine
<1>5. WorkOnBase'
  BY DEF IntegrationInv, WorkOnBase, Merging, Unmerging, Mine, TypeOK, Located, Raise, Err,
     Tried, gitVars, stateVars, Goto
<1>6. WaitingUsable'
  BY DEF IntegrationInv, WaitingUsable, Merging, Unmerging, Mine, TypeOK, Located, Raise, Err,
     Tried, gitVars, stateVars, Goto
<1>7. DivergenceIsJournaled'
  BY DEF IntegrationInv, DivergenceIsJournaled, Undisturbed, Unmerging, Committing, Merging,
     TypeOK, Located, Raise, Err, Tried, gitVars, stateVars, Goto, Mine
<1>8. StableIsInMain'
  BY ContainsItself DEF IntegrationInv, StableIsInMain, Undisturbed, Unmerging, Committing,
     Merging, TypeOK, Raise, Err, Tried, gitVars, stateVars, Goto, Mine
<1>9. IntegratedOnce'
  BY DEF IntegrationInv, IntegratedOnce, TypeOK, Located, Raise, Err, Tried, gitVars,
     stateVars, Goto, Mine
<1> QED
  BY <1>1, <1>2, <1>3, <1>4, <1>5, <1>6, <1>7, <1>8, <1>9 DEF IntegrationInv

LEMMA MergeRaisesKeeps ==
    ASSUME IntegrationInv, MergeRaises
    PROVE  IntegrationInv'
<1>1. TypeOK'
  BY DEF IntegrationInv, TypeOK, Journals, Tried, Untried, Err, NoJob, Located, MergeRaises,
     Mergeable, gitVars, stateVars, Goto, Mine
<1>2. Located'
  BY DEF IntegrationInv, Located, Unmerging, Merging, Committing, Mine, TypeOK, MergeRaises,
     Err, Mergeable, gitVars, stateVars, Goto
<1>3. MergedAsJournaled'
  BY DEF IntegrationInv, MergedAsJournaled, Merging, Mine, MergeRaises, Err, Mergeable,
     gitVars, stateVars, Goto
<1>4. Undisturbed'
  BY DEF IntegrationInv, Undisturbed, Unmerging, Merging, Committing, DivergenceIsJournaled,
     TypeOK, MergeRaises, Err, Mergeable, gitVars, stateVars, Goto, Mine
<1>5. WorkOnBase'
  BY DEF IntegrationInv, WorkOnBase, Merging, Unmerging, Mine, TypeOK, Located, MergeRaises,
     Err, Mergeable, gitVars, stateVars, Goto
<1>6. WaitingUsable'
  BY DEF IntegrationInv, WaitingUsable, Merging, Unmerging, Mine, TypeOK, Located,
     MergeRaises, Err, Mergeable, gitVars, stateVars, Goto
<1>7. DivergenceIsJournaled'
  BY DEF IntegrationInv, DivergenceIsJournaled, Undisturbed, Unmerging, Committing, Merging,
     TypeOK, Located, MergeRaises, Err, Mergeable, gitVars, stateVars, Goto, Mine
<1>8. StableIsInMain'
  BY ContainsItself DEF IntegrationInv, StableIsInMain, Undisturbed, Unmerging, Committing,
     Merging, TypeOK, MergeRaises, Err, Mergeable, gitVars, stateVars, Goto, Mine
<1>9. IntegratedOnce'
  BY DEF IntegrationInv, IntegratedOnce, TypeOK, Located, MergeRaises, Err, Mergeable,
     gitVars, stateVars, Goto, Mine
<1> QED
  BY <1>1, <1>2, <1>3, <1>4, <1>5, <1>6, <1>7, <1>8, <1>9 DEF IntegrationInv

LEMMA RollbackRaisesKeeps ==
    ASSUME IntegrationInv, RollbackRaises
    PROVE  IntegrationInv'
<1>1. TypeOK'
  BY DEF IntegrationInv, TypeOK, Journals, Tried, Untried, Err, NoJob, Located,
     RollbackRaises, gitVars, stateVars, Goto, Mine
<1>2. Located'
  BY DEF IntegrationInv, Located, Unmerging, Merging, Committing, Mine, TypeOK,
     RollbackRaises, Err, gitVars, stateVars, Goto
<1>3. MergedAsJournaled'
  BY DEF IntegrationInv, MergedAsJournaled, Merging, Mine, RollbackRaises, Err, gitVars,
     stateVars, Goto
<1>4. Undisturbed'
  BY DEF IntegrationInv, Undisturbed, Unmerging, Merging, Committing, DivergenceIsJournaled,
     TypeOK, RollbackRaises, Err, gitVars, stateVars, Goto, Mine
<1>5. WorkOnBase'
  BY DEF IntegrationInv, WorkOnBase, Merging, Unmerging, Mine, TypeOK, Located,
     RollbackRaises, Err, gitVars, stateVars, Goto
<1>6. WaitingUsable'
  BY DEF IntegrationInv, WaitingUsable, Merging, Unmerging, Mine, TypeOK, Located,
     RollbackRaises, Err, gitVars, stateVars, Goto
<1>7. DivergenceIsJournaled'
  BY DEF IntegrationInv, DivergenceIsJournaled, Undisturbed, Unmerging, Committing, Merging,
     TypeOK, Located, RollbackRaises, Err, gitVars, stateVars, Goto, Mine
<1>8. StableIsInMain'
  BY ContainsItself DEF IntegrationInv, StableIsInMain, Undisturbed, Unmerging, Committing,
     Merging, TypeOK, RollbackRaises, Err, gitVars, stateVars, Goto, Mine
<1>9. IntegratedOnce'
  BY DEF IntegrationInv, IntegratedOnce, TypeOK, Located, RollbackRaises, Err, gitVars,
     stateVars, Goto, Mine
<1> QED
  BY <1>1, <1>2, <1>3, <1>4, <1>5, <1>6, <1>7, <1>8, <1>9 DEF IntegrationInv

LEMMA AbortKeeps ==
    ASSUME IntegrationInv, Abort
    PROVE  IntegrationInv'
<1>1. TypeOK'
  <2>1. job' \in Jobs /\ pc' \in Places
    BY NoJobIsJob DEF Abort, Err, Finish, Places
  <2> QED
    BY <2>1 DEF IntegrationInv, TypeOK, Jobs, RunRecords, Places, gitVars, stateVars, Abort,
       Err, Finish
<1>2. Located'
  BY DEF IntegrationInv, Located, Unmerging, Merging, Committing, Mine, TypeOK, Abort, Err,
     Untried, Finish, NoJob, gitVars, stateVars, Goto
<1>3. MergedAsJournaled'
  BY DEF IntegrationInv, MergedAsJournaled, Merging, Mine, Abort, Err, Untried, Finish, NoJob,
     gitVars, stateVars, Goto
<1>4. Undisturbed'
  BY DEF IntegrationInv, Undisturbed, Unmerging, Merging, Committing, DivergenceIsJournaled,
     TypeOK, Abort, Err, Untried, Finish, NoJob, gitVars, stateVars, Goto, Mine
<1>5. WorkOnBase'
  BY DEF IntegrationInv, WorkOnBase, Merging, Unmerging, Mine, TypeOK, Located, Abort, Err,
     Untried, Finish, NoJob, gitVars, stateVars, Goto
<1>6. WaitingUsable'
  BY DEF IntegrationInv, WaitingUsable, Merging, Unmerging, Mine, TypeOK, Located, Abort, Err,
     Untried, Finish, NoJob, gitVars, stateVars, Goto
<1>7. DivergenceIsJournaled'
  BY DEF IntegrationInv, DivergenceIsJournaled, Undisturbed, Unmerging, Committing, Merging,
     TypeOK, Located, Abort, Err, Untried, Finish, NoJob, gitVars, stateVars, Goto, Mine
<1>8. StableIsInMain'
  BY ContainsItself DEF IntegrationInv, StableIsInMain, Undisturbed, Unmerging, Committing,
     Merging, TypeOK, Abort, Err, Untried, Finish, NoJob, gitVars, stateVars, Goto, Mine
<1>9. IntegratedOnce'
  BY DEF IntegrationInv, IntegratedOnce, TypeOK, Located, Abort, Err, Untried, Finish, NoJob,
     gitVars, stateVars, Goto, Mine
<1> QED
  BY <1>1, <1>2, <1>3, <1>4, <1>5, <1>6, <1>7, <1>8, <1>9 DEF IntegrationInv

LEMMA CrashKeeps ==
    ASSUME IntegrationInv, Crash
    PROVE  IntegrationInv'
<1>1. TypeOK'
  <2>1. job' \in Jobs /\ pc' \in Places
    BY NoJobIsJob DEF Crash, Finish, NoFaults, Places
  <2> QED
    BY <2>1 DEF IntegrationInv, TypeOK, Jobs, RunRecords, Places, gitVars, stateVars, Crash,
       Finish, NoFaults
<1>2. Located'
  BY DEF IntegrationInv, Located, Unmerging, Merging, Committing, Mine, TypeOK, Crash, Finish,
     NoJob, NoFaults, gitVars, stateVars, Goto
<1>3. MergedAsJournaled'
  BY DEF IntegrationInv, MergedAsJournaled, Merging, Mine, Crash, Finish, NoJob, NoFaults,
     gitVars, stateVars, Goto
<1>4. Undisturbed'
  BY DEF IntegrationInv, Undisturbed, Unmerging, Merging, Committing, DivergenceIsJournaled,
     TypeOK, Crash, Finish, NoJob, NoFaults, gitVars, stateVars, Goto, Mine
<1>5. WorkOnBase'
  BY DEF IntegrationInv, WorkOnBase, Merging, Unmerging, Mine, TypeOK, Located, Crash, Finish,
     NoJob, NoFaults, gitVars, stateVars, Goto
<1>6. WaitingUsable'
  BY DEF IntegrationInv, WaitingUsable, Merging, Unmerging, Mine, TypeOK, Located, Crash,
     Finish, NoJob, NoFaults, gitVars, stateVars, Goto
<1>7. DivergenceIsJournaled'
  BY DEF IntegrationInv, DivergenceIsJournaled, Undisturbed, Unmerging, Committing, Merging,
     TypeOK, Located, Crash, Finish, NoJob, NoFaults, gitVars, stateVars, Goto, Mine
<1>8. StableIsInMain'
  BY ContainsItself DEF IntegrationInv, StableIsInMain, Undisturbed, Unmerging, Committing,
     Merging, TypeOK, Crash, Finish, NoJob, NoFaults, gitVars, stateVars, Goto, Mine
<1>9. IntegratedOnce'
  BY DEF IntegrationInv, IntegratedOnce, Crash, stateVars
<1> QED
  BY <1>1, <1>2, <1>3, <1>4, <1>5, <1>6, <1>7, <1>8, <1>9 DEF IntegrationInv

-----------------------------------------------------------------------------
(* The theorems. *)

LEMMA InitInv == Init => IntegrationInv
<1> SUFFICES ASSUME Init
             PROVE  IntegrationInv
  OBVIOUS
<1>1. <<>> \in Commits /\ \A r \in Runs : <<r>> \in Commits /\ <<r>> = Append(<<>>, r)
  BY DEF Commits
<1>2. TypeOK
  BY <1>1 DEF Init, TypeOK, NoJob, NoFaults
<1>3. Contains(<<>>, <<>>)
  BY <1>1, ContainsItself
<1>4. Located /\ MergedAsJournaled /\ Undisturbed /\ DivergenceIsJournaled /\ StableIsInMain
  BY <1>3 DEF Init, Located, MergedAsJournaled, Undisturbed, DivergenceIsJournaled,
     StableIsInMain, Unmerging, Merging, Committing
<1>5. WorkOnBase /\ WaitingUsable
  BY <1>1 DEF Init, WorkOnBase, WaitingUsable, Merging
<1>6. IntegratedOnce
  <2>1. Len(stable) = 0 /\ \A r \in Runs : run[r].state # "integrated"
    BY DEF Init
  <2>2. \A r \in Runs : {i \in 1..Len(stable) : stable[i] = r} = {}
    <3>1. 1..Len(stable) = {}
      BY <2>1
    <3> QED
      BY <3>1
  <2> QED
    BY <2>1, <2>2 DEF IntegratedOnce
<1> QED
  BY <1>2, <1>4, <1>5, <1>6 DEF IntegrationInv

LEMMA StutterKeeps == IntegrationInv /\ UNCHANGED vars => IntegrationInv'
<1> SUFFICES ASSUME IntegrationInv, UNCHANGED vars
             PROVE  IntegrationInv'
  OBVIOUS
<1>1. TypeOK' /\ Located' /\ MergedAsJournaled' /\ Undisturbed'
  BY DEF vars, IntegrationInv, TypeOK, Located, MergedAsJournaled, Undisturbed, Mine
<1>2. WorkOnBase' /\ WaitingUsable'
  BY DEF vars, IntegrationInv, WorkOnBase, WaitingUsable, Mine
<1>3. DivergenceIsJournaled' /\ StableIsInMain' /\ IntegratedOnce'
  BY DEF vars, IntegrationInv, DivergenceIsJournaled, StableIsInMain, IntegratedOnce
<1> QED
  BY <1>1, <1>2, <1>3 DEF IntegrationInv

LEMMA NextKeeps == IntegrationInv /\ [Next]_vars => IntegrationInv'
<1> SUFFICES ASSUME IntegrationInv, [Next]_vars
             PROVE  IntegrationInv'
  OBVIOUS
<1>1. ASSUME NEW r \in Runs, Start(r) \/ CancelTask(r)
      PROVE  IntegrationInv'
  BY <1>1, StartKeeps, CancelTaskKeeps
<1>2. CASE Recover
  BY <1>2, RecoverNothingKeeps, RecoverCommittedKeeps, RecoverMergedKeeps,
     RecoverUnmergedKeeps, RecoverRefusedKeeps, RecoverStateKeeps, RecoverClearKeeps DEF
     Recover
<1>3. CASE Integrate
  BY <1>3, ValidateKeeps, PrepareKeeps, BeginKeeps, RebaseKeeps, RecordKeeps,
     JournalRebasedKeeps, MergeKeeps, JournalMergedKeeps, TestKeeps, FinalizeKeeps,
     JournalCommittedKeeps, ClearKeeps DEF Integrate
<1>4. CASE Except
  BY <1>4, RollbackMergeKeeps, RollbackBranchKeeps, RollbackClearKeeps, FailRunKeeps DEF
     Except
<1>5. CASE Fault
  BY <1>5, RaiseKeeps, MergeRaisesKeeps, RollbackRaisesKeeps, AbortKeeps, CrashKeeps DEF Fault
<1>6. CASE UNCHANGED vars
  BY <1>6, StutterKeeps
<1> QED
  BY <1>1, <1>2, <1>3, <1>4, <1>5, <1>6 DEF Next

\* What run() knows at each step holds in every state, and with it the types.
THEOREM IntegrationCorrect == Spec => []IntegrationInv
<1> QED
  BY InitInv, NextKeeps, PTL DEF Spec

\* The integration, git and the journal keep their types for any runs, workers and commits.
THEOREM TypeCorrect == Spec => []TypeOK
<1>1. IntegrationInv => TypeOK
  BY DEF IntegrationInv
<1> QED
  BY <1>1, IntegrationCorrect, PTL

\* Without an error MAIN and the project state part only under a journal (integration.py).
THEOREM DivergenceIsJournaledCorrect == Spec => []DivergenceIsJournaled
<1>1. IntegrationInv => DivergenceIsJournaled
  BY DEF IntegrationInv
<1> QED
  BY <1>1, IntegrationCorrect, PTL

\* Without an error MAIN never loses what the project state has integrated.
THEOREM StableIsInMainCorrect == Spec => []StableIsInMain
<1>1. IntegrationInv => StableIsInMain
  BY DEF IntegrationInv
<1> QED
  BY <1>1, IntegrationCorrect, PTL

\* A run is in the stable commit exactly once if it is integrated, and else not at all.
THEOREM IntegratedOnceCorrect == Spec => []IntegratedOnce
<1>1. IntegrationInv => IntegratedOnce
  BY DEF IntegrationInv
<1> QED
  BY <1>1, IntegrationCorrect, PTL

\* A waiting run's workspace is on its reviewed commit.
THEOREM WaitingRunIsUsableCorrect == Spec => []WaitingRunIsUsable
<1>1. IntegrationInv => WaitingRunIsUsable
  BY DEF IntegrationInv, WaitingUsable, WaitingRunIsUsable
<1> QED
  BY <1>1, IntegrationCorrect, PTL

LEMMA StepFollowsMain ==
    ASSUME IntegrationInv, [Next]_vars, stable' # stable
    PROVE  stable' = main /\ main' = main /\ Contains(stable', stable)
<1>1. Finalize
  BY DEF Next, Recover, Integrate, Except, Fault, vars, stateVars, Start, CancelTask,
     RecoverNothing, RecoverCommitted, RecoverMerged, RecoverUnmerged, RecoverRefused,
     RecoverState, RecoverClear, Validate, Prepare, Begin, Rebase, Record, JournalRebased,
     Merge, JournalMerged, Test, JournalCommitted, Clear, RollbackMerge, RollbackBranch,
     RollbackClear, FailRun, Raise, MergeRaises, RollbackRaises, Abort, Crash
<1>2. main' = main /\ stable' = journal.integration /\ stable = job.previous
  BY <1>1 DEF Finalize, gitVars, stateVars
<1>3. journal.integration = main /\ Contains(main, job.previous)
  BY <1>1 DEF IntegrationInv, MergedAsJournaled, Merging, Finalize
<1> QED
  BY <1>2, <1>3

\* The project state moves only to the commit MAIN is on, which extends it
\* (finalize_worker_integration after the merge), whatever crashes or fails.
THEOREM StateFollowsMainCorrect == Spec => StateFollowsMain
<1>1. IntegrationInv /\ [Next]_vars =>
          [stable' # stable => stable' = main /\ main' = main /\ Contains(stable', stable)]_vars
  BY StepFollowsMain
<1> QED
  BY <1>1, IntegrationCorrect, PTL DEF Spec, StateFollowsMain

-----------------------------------------------------------------------------
(***************************************************************************)
(* Who answers for a run that is being integrated.  An attempt that has    *)
(* begun a run's integration knows it until it ends (Answering), the       *)
(* journal is its own also on the way out (OwnJournal), and a journal is   *)
(* given up only for a run that no longer is being integrated.             *)
(***************************************************************************)
Answering ==
    /\ pc \in {"prepare", "begin"} => run[Mine].state = "ready_to_integrate"
    /\ pc \in {"rollback", "rollback_clear", "fail"} \cup Unmerging \cup Merging =>
          (run[Mine].state = "integrating" => job.started)
    /\ pc \in Committing => run[Mine].state = "integrated"

OwnJournal ==
    /\ pc \in {"validate", "prepare"} => journal = NoJournal
    /\ pc \in {"rollback", "rollback_clear"} \cup Committing => journal.run = Mine
    /\ pc = "recover_clear" => run[journal.run].state # "integrating"
    /\ job.started => pc \in {"rollback", "rollback_clear", "fail"} \cup Tried

CarryInv == IntegrationInv /\ Answering /\ OwnJournal

\* The recovery begins where no attempt has, and it clears a journal only of a run that is
\* not being integrated.
LEMMA RecoverCarries ==
    ASSUME CarryInv, Recover
    PROVE  /\ Answering' /\ OwnJournal'
           /\ \A r \in Runs : Orphaned(r)' => Orphaned(r)
<1>0. TypeOK /\ Located
  BY DEF CarryInv, IntegrationInv
<1>1. ~job.started
  BY DEF CarryInv, OwnJournal, Recover, RecoverNothing, RecoverCommitted, RecoverMerged,
         RecoverUnmerged, RecoverRefused, RecoverState, RecoverClear, Tried
<1>2. CASE RecoverNothing \/ RecoverRefused
  BY <1>0, <1>1, <1>2
  DEF RecoverNothing, RecoverRefused, Answering, OwnJournal, Orphaned, Carried, Goto, Finish,
      NoJob, Mine, stateVars, gitVars, Unmerging, Merging, Committing, Tried
<1>3. CASE RecoverCommitted
  BY <1>0, <1>1, <1>3
  DEF RecoverCommitted, Committed, Interrupted, Answering, OwnJournal, Orphaned, Carried, Goto,
      Mine, stateVars, gitVars, Unmerging, Merging, Committing, Tried
<1>4. CASE RecoverMerged \/ RecoverUnmerged
  BY <1>0, <1>1, <1>4
  DEF RecoverMerged, RecoverUnmerged, Answering, OwnJournal, Orphaned, Carried, Goto,
      Mine, stateVars, gitVars, Unmerging, Merging, Committing, Tried
<1>5. CASE RecoverState
  <2>1. journal \in Journals /\ journal.run \in Runs
    BY <1>0, <1>5 DEF RecoverState, TypeOK, Located, Journals
  <2>2. \A r \in Runs : run'[r].state = "integrating" => run[r].state = "integrating"
    BY <1>0, <1>5, <2>1 DEF RecoverState, TypeOK
  <2>3. pc' = "recover_clear" => run'[journal.run].state # "integrating"
    BY <1>0, <1>5, <2>1 DEF RecoverState, Interrupted, TypeOK, Finish, Goto
  <2> QED
    BY <1>0, <1>1, <1>5, <2>2, <2>3
    DEF RecoverState, Answering, OwnJournal, Orphaned, Carried, Goto, Finish, NoJob,
        Mine, stateVars, gitVars, Unmerging, Merging, Committing, Tried
<1>6. CASE RecoverClear
  <2>1. run[journal.run].state # "integrating"
    BY <1>6 DEF RecoverClear, CarryInv, OwnJournal
  <2> QED
    BY <1>0, <1>1, <1>6, <2>1
    DEF RecoverClear, Answering, OwnJournal, Orphaned, Carried, Goto,
        Mine, stateVars, gitVars, Unmerging, Merging, Committing, Tried
<1> QED
  BY <1>2, <1>3, <1>4, <1>5, <1>6 DEF Recover

\* An attempt takes over a run by its journal and by its own knowledge, and gives up both
\* only with the run integrated.
LEMMA IntegrateCarries ==
    ASSUME CarryInv, Integrate
    PROVE  /\ Answering' /\ OwnJournal'
           /\ \A r \in Runs : Orphaned(r)' => Orphaned(r)
<1>0. /\ TypeOK /\ Located /\ Answering /\ OwnJournal /\ WaitingUsable /\ Mine \in Runs
      /\ pc # "idle"
  BY DEF CarryInv, IntegrationInv, Located, Integrate, Validate, Prepare, Begin, Rebase, Record,
         JournalRebased, Merge, JournalMerged, Test, Finalize, JournalCommitted, Clear
<1>1. CASE Validate
  BY <1>0, <1>1
  DEF Validate, Ready, TypeOK, Answering, OwnJournal, Orphaned, Carried, Goto, Finish, NoJob,
      Mine, stateVars, gitVars, Unmerging, Merging, Committing, Tried
<1>2. CASE Prepare
  <2>1. journal' # NoJournal /\ journal'.run = Mine /\ journal = NoJournal
    <3>1. journal' \in Journals
      BY <1>0, <1>2 DEF Prepare, TypeOK, Journals, Commits
    <3> QED
      BY <1>0, <1>2, <3>1, JournalExists DEF Prepare, OwnJournal
  <2> QED
    BY <1>0, <1>2, <2>1
    DEF Prepare, Answering, OwnJournal, Orphaned, Carried, Goto,
        Mine, stateVars, gitVars, Unmerging, Merging, Committing, Tried
<1>3. CASE Begin
  <2>1. journal # NoJournal /\ journal.run = Mine
    BY <1>0, <1>3 DEF Begin, Located, Unmerging
  <2>2. \A r \in Runs \ {Mine} : run'[r] = run[r]
    BY <1>0, <1>3 DEF Begin, TypeOK
  <2>3. run'[Mine].state = "integrating" => job'.started
    BY <1>0, <1>3 DEF Begin, TypeOK, Answering
  <2>4. job'.run = job.run
    BY <1>0, <1>3 DEF Begin, TypeOK
  <2>5. pc' \in {"rebase", "rollback"}
    BY <1>3 DEF Begin, Goto
  <2> QED
    BY <1>0, <1>3, <2>1, <2>2, <2>3, <2>4, <2>5
    DEF Begin, Answering, OwnJournal, Orphaned, Carried,
        Mine, stateVars, gitVars, Unmerging, Merging, Committing, Tried
<1>4. CASE Rebase \/ JournalRebased \/ JournalMerged \/ Test
  <2>1. journal \in Journals /\ journal.run = Mine
    BY <1>0, <1>4
    DEF Rebase, JournalRebased, JournalMerged, Test, TypeOK, Located, Unmerging, Merging
  <2>2. journal' # NoJournal /\ journal'.run = Mine
    <3>1. CASE Rebase \/ Test
      BY <1>0, <2>1, <3>1, JournalExists DEF Rebase, Test
    <3>2. CASE JournalRebased \/ JournalMerged
      <4>1. journal' \in Journals /\ journal'.run = Mine
        BY <1>0, <2>1, <3>2 DEF JournalRebased, JournalMerged, TypeOK, Journals
      <4> QED
        BY <4>1, JournalExists
    <3> QED
      BY <1>4, <3>1, <3>2
  <2>3. /\ UNCHANGED <<run, job>>
        /\ pc \in Unmerging \cup Merging /\ pc # "begin"
        /\ pc' \in {"rollback"} \cup ((Unmerging \cup Merging) \ {"begin"})
    BY <1>4
    DEF Rebase, JournalRebased, JournalMerged, Test, Goto, Unmerging, Merging, stateVars
  <2> QED
    BY <1>0, <2>1, <2>2, <2>3
    DEF Answering, OwnJournal, Orphaned, Carried, Mine, Unmerging, Merging, Committing, Tried
<1>5. CASE Record
  <2>1. journal # NoJournal /\ journal.run = Mine
    BY <1>0, <1>5 DEF Record, Located, Unmerging
  <2>2. \A r \in Runs : run'[r].state = run[r].state
    BY <1>0, <1>5 DEF Record, TypeOK
  <2>3. pc' \in {"journal_rebased", "rollback"} /\ UNCHANGED <<journal, job>> /\ pc = "record"
    BY <1>5 DEF Record, Goto
  <2> QED
    BY <1>0, <2>1, <2>2, <2>3
    DEF Answering, OwnJournal, Orphaned, Carried, Mine, Unmerging, Merging, Committing, Tried
<1>6. CASE Merge
  <2>1. journal # NoJournal /\ journal.run = Mine
    BY <1>0, <1>6 DEF Merge, Located, Unmerging
  <2>2. job'.run = Mine /\ job'.started = job.started
    BY <1>0, <1>6 DEF Merge, TypeOK, Mine
  <2>3. /\ pc' \in {"journal_merged", "rollback"} /\ UNCHANGED <<journal, run>>
        /\ pc = "merge"
    BY <1>6 DEF Merge, Goto, stateVars
  <2> QED
    BY <1>0, <2>1, <2>2, <2>3
    DEF Answering, OwnJournal, Orphaned, Carried, Mine, Unmerging, Merging, Committing, Tried
<1>7. CASE Finalize
  <2>1. journal # NoJournal /\ journal.run = Mine
    BY <1>0, <1>7 DEF Finalize, Located, Merging
  <2>2. \A r \in Runs \ {Mine} : run'[r] = run[r]
    BY <1>0, <1>7 DEF Finalize, TypeOK, stateVars
  <2>3. \/ pc' = "journal_committed" /\ run'[Mine].state = "integrated"
        \/ pc' = "rollback" /\ run' = run
    BY <1>0, <1>7 DEF Finalize, TypeOK, Goto, stateVars
  <2>4. UNCHANGED <<journal, job>> /\ pc = "finalize"
    BY <1>7 DEF Finalize
  <2> QED
    BY <1>0, <2>1, <2>2, <2>3, <2>4
    DEF Answering, OwnJournal, Orphaned, Carried, Mine, Unmerging, Merging, Committing, Tried
<1>8. CASE JournalCommitted
  <2>1. journal \in Journals /\ journal.run = Mine
    BY <1>0, <1>8 DEF JournalCommitted, TypeOK, Located, OwnJournal, Committing
  <2>2. journal' \in Journals /\ journal'.run = Mine
    BY <1>8, <2>1 DEF JournalCommitted, Journals
  <2>3. journal' # NoJournal
    BY <2>2, JournalExists
  <2> QED
    BY <1>0, <1>8, <2>1, <2>2, <2>3
    DEF JournalCommitted, Answering, OwnJournal, Orphaned, Carried, Goto,
        Mine, stateVars, gitVars, Unmerging, Merging, Committing, Tried
<1>9. CASE Clear
  <2>1. journal.run = Mine /\ run[Mine].state = "integrated"
    BY <1>0, <1>9 DEF Clear, Answering, OwnJournal, Committing
  <2> QED
    BY <1>0, <1>9, <2>1
    DEF Clear, Answering, OwnJournal, Orphaned, Carried, Finish, NoJob,
        Mine, stateVars, gitVars, Unmerging, Merging, Committing, Tried
<1> QED
  BY <1>1, <1>2, <1>3, <1>4, <1>5, <1>6, <1>7, <1>8, <1>9 DEF Integrate

\* The except block clears the journal with the run still in the attempt's hands, and then
\* blocks it.
LEMMA ExceptCarries ==
    ASSUME CarryInv, Except
    PROVE  /\ Answering' /\ OwnJournal'
           /\ \A r \in Runs : Orphaned(r)' => Orphaned(r)
<1>0. TypeOK /\ Located /\ Answering /\ OwnJournal /\ Mine \in Runs
  BY DEF CarryInv, IntegrationInv, Located, Except, RollbackMerge, RollbackBranch, RollbackClear,
         FailRun
<1>1. CASE RollbackMerge \/ RollbackBranch
  BY <1>0, <1>1
  DEF RollbackMerge, RollbackBranch, Located, Answering, OwnJournal, Orphaned, Carried, Goto,
      Mine, stateVars, Unmerging, Merging, Committing, Tried
<1>2. CASE RollbackClear
  BY <1>0, <1>2
  DEF RollbackClear, Located, Answering, OwnJournal, Orphaned, Carried, Goto,
      Mine, stateVars, Unmerging, Merging, Committing, Tried
<1>3. CASE FailRun
  <2>1. \A r \in Runs \ {Mine} : run'[r] = run[r]
    BY <1>0, <1>3 DEF FailRun, TypeOK
  <2>2. run'[Mine].state # "integrating"
    BY <1>0, <1>3 DEF FailRun, TypeOK, Answering
  <2> QED
    BY <1>0, <1>3, <2>1, <2>2
    DEF FailRun, Answering, OwnJournal, Orphaned, Carried, Finish, NoJob,
        Mine, Unmerging, Merging, Committing, Tried
<1> QED
  BY <1>1, <1>2, <1>3 DEF Except

\* A fault leaves the journal where it is, and with it all an attempt answers for, unless
\* that has been cleared already.
LEMMA FaultCarries ==
    ASSUME CarryInv, Fault
    PROVE  /\ Answering' /\ OwnJournal'
           /\ \A r \in Runs : Orphaned(r)' =>
                 Orphaned(r) \/ (pc = "fail" /\ Mine = r /\ faults' # faults)
<1>0. TypeOK /\ Located /\ Answering /\ OwnJournal /\ Mine \in Runs
  BY DEF CarryInv, IntegrationInv, Located, Fault, Raise, MergeRaises, RollbackRaises, Abort,
         Crash, Tried, Untried
<1>1. CASE Raise \/ MergeRaises \/ RollbackRaises
  <2>1. /\ UNCHANGED <<run, journal, job>>
        /\ \/ pc \in Tried /\ pc' = "rollback"
           \/ pc = "rollback" /\ pc' = "fail"
    BY <1>1 DEF Raise, MergeRaises, RollbackRaises, Goto, stateVars, gitVars, Tried
  <2> QED
    BY <1>0, <2>1
    DEF Located, Answering, OwnJournal, Orphaned, Carried, Mine, Unmerging, Merging, Committing,
        Tried
<1>2. CASE Abort \/ Crash
  <2>1. UNCHANGED <<run, journal>> /\ pc' = "idle" /\ job' = NoJob /\ pc # "idle"
    BY <1>2 DEF Abort, Crash, Finish, stateVars, Untried
  <2>2. faults' # faults
    <3>1. \E f \in {"crashes", "errors"} :
             faults' = [faults EXCEPT ![f] = @ + 1]
      BY <1>2 DEF Abort, Crash, Err
    <3> QED
      BY <1>0, <3>1 DEF TypeOK
  <2>3. ASSUME NEW r \in Runs, Orphaned(r)', ~Orphaned(r)
        PROVE  pc = "fail" /\ Mine = r
    <3>1. Mine = r /\ job.started /\ ~(journal # NoJournal /\ journal.run = r)
      BY <2>1, <2>3 DEF Orphaned, Carried, Mine
    <3>2. pc \in {"rollback", "rollback_clear", "fail"} \cup Tried
      BY <1>0, <3>1 DEF OwnJournal
    <3> QED
      BY <1>0, <3>1, <3>2
      DEF Located, OwnJournal, Unmerging, Merging, Committing, Tried
  <2> QED
    BY <1>0, <2>1, <2>2, <2>3
    DEF Answering, OwnJournal, NoJob, Mine, Unmerging, Merging, Committing, Tried
<1> QED
  BY <1>1, <1>2 DEF Fault

\* Every step keeps the invariant and leaves no run alone but in the one place.
LEMMA StepCarries ==
    ASSUME CarryInv, [Next]_vars
    PROVE  /\ CarryInv'
           /\ \A r \in Runs : Orphaned(r)' =>
                 Orphaned(r) \/ (pc = "fail" /\ Mine = r /\ faults' # faults)
<1>0. IntegrationInv'
  BY NextKeeps DEF CarryInv
<1>1. TypeOK /\ Answering /\ OwnJournal
  BY DEF CarryInv, IntegrationInv
<1>2. CASE Recover \/ Integrate \/ Except \/ Fault
  BY <1>0, <1>2, RecoverCarries, IntegrateCarries, ExceptCarries, FaultCarries DEF CarryInv
<1>3. ASSUME NEW r \in Runs, Start(r)
      PROVE  /\ Answering' /\ OwnJournal'
             /\ \A s \in Runs : Orphaned(s)' => Orphaned(s)
  <2>1. ~job.started /\ ~job'.started /\ pc' = "recover"
    BY <1>1, <1>3 DEF Start, Goto, NoJob, OwnJournal, Tried
  <2> QED
    BY <1>3, <2>1
    DEF Start, Answering, OwnJournal, Orphaned, Carried, stateVars, gitVars, Unmerging, Merging,
        Committing, Tried
<1>4. ASSUME NEW r \in Runs, CancelTask(r)
      PROVE  /\ Answering' /\ OwnJournal'
             /\ \A s \in Runs : Orphaned(s)' => Orphaned(s)
  BY <1>1, <1>4 DEF CancelTask, Answering, OwnJournal, Orphaned, Carried, Mine
<1>5. CASE UNCHANGED vars
  BY <1>0, <1>1, <1>5
  DEF CarryInv, vars, stateVars, gitVars, Answering, OwnJournal, Orphaned, Carried, Mine
<1> QED
  BY <1>0, <1>2, <1>3, <1>4, <1>5 DEF CarryInv, Next

\* However often the runner stops, fails or is refused: a run that is being integrated is
\* named by the journal or in the hands of an attempt, unless it stopped after clearing the
\* journal and before fail_worker_run had returned (the except block of run()).
THEOREM OrphansComeFromOnePlace == Spec => OrphanedInOnePlace
<1>1. Init => CarryInv
  BY InitInv
  DEF Init, CarryInv, Answering, OwnJournal, NoJob, Unmerging, Merging, Committing, Tried
<1>2. CarryInv /\ [Next]_vars => CarryInv'
  BY StepCarries
<1>3. CarryInv /\ [Next]_vars =>
        [\A r \in Runs : Orphaned(r)' => Orphaned(r) \/ (pc = "fail" /\ Mine = r /\ faults' # faults)]_vars
  BY StepCarries
<1> QED
  BY <1>1, <1>2, <1>3, PTL DEF Spec, OrphanedInOnePlace

=============================================================================
