----------------------------- MODULE MCPlatform -----------------------------
(***************************************************************************)
(* The agent loop, the long-term memory, the files that local processes    *)
(* share under a lock, the operator's cleanup and the locks on scopes for  *)
(* TLC.  They share no state (the kinds of locked files are behaviours of  *)
(* their own), so that a behaviour of this module is one of one part,      *)
(* which "which" names, and the others stay as they start.                 *)
(***************************************************************************)
EXTENDS AgentLoop, LongTermMemory, StateStore, Publication, Reaper, Scopes, TLC

CONSTANTS p1, p2, p3

VARIABLE which

\* The memory's two entries are named as two of the processes, so that one permutation of
\* two names, which every state can afford, halves both parts.
PlatformSymmetry == Permutations({p1, p2})

lockedVars == <<lockVars, operation, known, loaded, state, confirmed,
                request, content, read, ledger, acknowledged>>

PlatformVars == <<loopVars, memoryVars, lockedVars, reaperVars, fileLocks, which>>

PlatformInit ==
    /\ which \in {"loop", "memory", "state", "ledger", "git", "reaper", "scopes"}
    /\ LoopInit /\ (which # "loop" => mode = CHOOSE m \in Modes : Allowed(m))
    /\ MemoryInit
    /\ LockInit(IF which = "git" THEN {"owner"} ELSE {"age"})
    /\ StoreInit
    /\ (which # "state" => state = Nothing /\ operation = [p \in Processes |-> "create"])
    /\ LedgerInit
    /\ (which # "ledger" => ledger = NoLedger /\ request = [p \in Processes |-> CreateLedger])
    /\ ReaperInit
    /\ (which # "reaper" => sweep = NoSweep("idle"))
    /\ ScopesInit

PlatformNext ==
    /\ UNCHANGED which
    /\ \/ /\ which = "loop" /\ LoopNext
          /\ UNCHANGED <<memoryVars, lockedVars, reaperVars, fileLocks>>
       \/ /\ which = "memory" /\ MemoryNext
          /\ UNCHANGED <<loopVars, lockedVars, reaperVars, fileLocks>>
       \/ /\ which = "state" /\ StoreNext
          /\ UNCHANGED <<loopVars, memoryVars, reaperVars, fileLocks,
                         request, content, read, ledger, acknowledged>>
       \/ /\ which = "ledger" /\ LedgerNext
          /\ UNCHANGED <<loopVars, memoryVars, reaperVars, fileLocks,
                         operation, known, loaded, state, confirmed>>
       \/ /\ which = "git" /\ GitLockNext
          /\ UNCHANGED <<loopVars, memoryVars, reaperVars, fileLocks, operation, known,
                         loaded, state, confirmed, request, content, read, ledger,
                         acknowledged>>
       \/ /\ which = "reaper" /\ ReaperNext
          /\ UNCHANGED <<loopVars, memoryVars, lockedVars, fileLocks>>
       \/ /\ which = "scopes" /\ ScopesNext
          /\ UNCHANGED <<loopVars, memoryVars, lockedVars, reaperVars>>

PlatformSpec == PlatformInit /\ [][PlatformNext]_PlatformVars

-----------------------------------------------------------------------------
(* What each part promises, with its types. *)

\* No run counts as a success that has not earned it, a rejected plan leaves nothing, every
\* step one verdict, and the threads of a run together stay within its budget (TankAI.run).
RunsHold ==
    which = "loop" =>
        /\ LoopTypeOK
        /\ ReleaseIsEarned /\ RejectionLeavesNothing /\ OneVerdictPerStep /\ BudgetHolds

\* No crash and no failed write loses the text of an entry, makes one unrestorable, or
\* gives a stub for an answer (LongTermMemory).
MemoryHolds ==
    which = "memory" =>
        /\ MemoryTypeOK
        /\ TextIsKept /\ ColdIsRestorable /\ StubIsNotSearched /\ IndexIsComplete

\* Without a process that dies or is too slow under a lock file there is one holder at a
\* time, and nothing that a call has confirmed is lost (_process_lock, _git_metadata_lock).
LockedFilesHold ==
    which \in {"state", "ledger", "git"} =>
        /\ LockTypeOK /\ StoreTypeOK /\ LedgerTypeOK
        /\ ExclusionNeedsNoFault /\ ChangesAreKept
        /\ LedgerVerifies /\ ReceiptsAreKept /\ CompleteIsPublished

\* The cleanups leave uncommitted work and live containers alone, and no binding without
\* its worktree unless they are stopped or come between a worker and its worktree
\* (reap_worktrees, reap_containers).
CleanupHolds ==
    which = "reaper" =>
        ReaperTypeOK /\ DirtyTreeIsKept /\ BoundTreeExists /\ LiveContainerIsKept

\* Locks granted by comparing scopes as texts keep the files apart when every wildcard
\* begins a name, and for plain scopes they keep nothing else apart (scopes_overlap).
ScopesHold == which = "scopes" => WholeNamesAreKeptApart /\ PlainScopesAreExact
=============================================================================
