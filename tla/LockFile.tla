------------------------------ MODULE LockFile ------------------------------
(***************************************************************************)
(* The lock files that keep local processes apart: _process_lock of the    *)
(* project state (dev_orchestrator/state_store.py) and of the publication  *)
(* ledger (release_publication.py), and _git_metadata_lock of the          *)
(* repository (git_workspace.py).  Whoever creates the file holds the      *)
(* lock, and whoever finds it stale removes it; neither that nor the       *)
(* release looks at whose file it is by then.                              *)
(***************************************************************************)
EXTENDS Naturals, FiniteSets

CONSTANTS
    Processes,      \* the processes that want the lock
    NoProcess       \* the owner of a file that is not there

ASSUME LockAssumption == IsFiniteSet(Processes) /\ NoProcess \notin Processes

VARIABLES
    rule,           \* when a lock is stale: by its "age", or by its "owner"
    file,           \* the lock file: who made it, whether the pid is in it, its age
    at,             \* where every process is
    displaced,      \* the file of a process that still worked was removed
    fault           \* a process died or was too slow with the lock in its hands

lockVars == <<rule, file, at, displaced, fault>>

NoFile == [owner |-> NoProcess, filled |-> FALSE, old |-> FALSE]

\* In the critical section, or on the way in or out.
Inside == {"opened", "working", "loaded", "leaving"}
Works(p) == p \in Processes /\ at[p] \in Inside

\* The project state and the ledger: older than 120 s, whoever holds it.  The repository:
\* older than 1 s and without a living owner, so that an empty file has none either and
\* stale_seconds never matters.
Stale ==
    /\ file # NoFile /\ file.old
    /\ rule = "owner" => ~file.filled \/ at[file.owner] = "dead"

\* os.open with O_CREAT and O_EXCL
Create(p) ==
    /\ at[p] = "waiting" /\ file = NoFile
    /\ file' = [owner |-> p, filled |-> FALSE, old |-> FALSE]
    /\ at' = [at EXCEPT ![p] = "opened"]
    /\ UNCHANGED <<rule, displaced, fault>>

\* The pid is written to the file that was opened, which may have been removed since.
WritePid(p) ==
    /\ at[p] = "opened"
    /\ file' = IF file.owner = p THEN [file EXCEPT !.filled = TRUE] ELSE file
    /\ at' = [at EXCEPT ![p] = "working"]
    /\ UNCHANGED <<rule, displaced, fault>>

FindStale(p) ==
    /\ at[p] = "waiting" /\ Stale
    /\ at' = [at EXCEPT ![p] = "removing"]
    /\ UNCHANGED <<rule, file, displaced, fault>>

\* Whatever file is there by now goes.
RemoveFile(p) ==
    /\ file' = NoFile
    /\ displaced' = (displaced \/ (file.owner # p /\ Works(file.owner)))

RemoveStale(p) ==
    /\ at[p] = "removing" /\ RemoveFile(p)
    /\ at' = [at EXCEPT ![p] = "waiting"]
    /\ UNCHANGED <<rule, fault>>

GiveUp(p) ==
    /\ at[p] = "waiting" /\ file # NoFile
    /\ at' = [at EXCEPT ![p] = "done"]
    /\ UNCHANGED <<rule, file, displaced, fault>>

Release(p) ==
    /\ at[p] = "leaving" /\ RemoveFile(p)
    /\ at' = [at EXCEPT ![p] = "done"]
    /\ UNCHANGED <<rule, fault>>

\* What the lock is held for, where the model says no more about it.
Work(p) ==
    /\ at[p] = "working"
    /\ at' = [at EXCEPT ![p] = "leaving"]
    /\ UNCHANGED <<rule, file, displaced, fault>>

\* The limit passes: too slow is who still works by then, with the repository's lock only
\* if not even the pid is written.
Age ==
    /\ file # NoFile /\ ~file.old
    /\ file' = [file EXCEPT !.old = TRUE]
    /\ fault' = (fault \/ (Works(file.owner) /\ (rule = "age" \/ ~file.filled)))
    /\ UNCHANGED <<rule, at, displaced>>

Die(p) ==
    /\ Works(p)
    /\ at' = [at EXCEPT ![p] = "dead"]
    /\ fault' = TRUE
    /\ UNCHANGED <<rule, file, displaced>>

LockInit(rules) ==
    /\ rule \in rules /\ file = NoFile
    /\ at = [p \in Processes |-> "waiting"]
    /\ displaced = FALSE /\ fault = FALSE

\* Everything but what is done with the lock.
LockStep ==
    \/ Age
    \/ \E p \in Processes : Create(p) \/ WritePid(p) \/ FindStale(p) \/ RemoveStale(p)
                            \/ GiveUp(p) \/ Release(p) \/ Die(p)

\* The integration lock and the workspace lock of a repository.
GitLockNext == LockStep \/ \E p \in Processes : Work(p)

-----------------------------------------------------------------------------
(* Properties. *)

LockTypeOK ==
    /\ rule \in {"age", "owner"}
    /\ file \in [owner : Processes \cup {NoProcess}, filled : BOOLEAN, old : BOOLEAN]
    /\ at \in [Processes -> Inside \cup {"waiting", "removing", "done", "dead"}]
    /\ displaced \in BOOLEAN /\ fault \in BOOLEAN

\* Two processes are inside at once only if the file of one that still worked was removed,
\* and that happens only after some process has died or been too slow, never by contention
\* alone (both _process_lock and _git_metadata_lock).
ExclusionNeedsNoFault ==
    /\ ~displaced => Cardinality({p \in Processes : Works(p)}) <= 1
    /\ displaced => fault
=============================================================================
