----------------------------- MODULE StateStore -----------------------------
(***************************************************************************)
(* ProjectStateStore (dev_orchestrator/state_store.py): one JSON file with *)
(* a revision, replaced as a whole under the lock file.  A transaction     *)
(* changes the state it loads under the lock, a save the one its caller    *)
(* has read before, and says which revision that was.                      *)
(***************************************************************************)
EXTENDS LockFile

VARIABLES
    operation,      \* what every process does: "create", "transaction" or "save"
    known,          \* the state a process has read before it wants the lock
    loaded,         \* the state a process has loaded under the lock
    state,          \* the file: its revision and the processes whose change it contains
    confirmed       \* the processes whose call has returned without an error

storeVars == <<lockVars, operation, known, loaded, state, confirmed>>

Nothing == [revision |-> 0, changes |-> {}]     \* no file

\* Mutation: a save does not look at the revision.
AcceptedUnchecked(p) ==
    CASE operation[p] = "create"      -> state = Nothing
      [] operation[p] = "transaction" -> state # Nothing
      [] operation[p] = "save"        -> TRUE

\* expected_revision is what the caller has read.
Accepted(p) ==
    CASE operation[p] = "create"      -> state = Nothing
      [] operation[p] = "transaction" -> state # Nothing
      [] operation[p] = "save"        -> state.revision = known[p].revision

\* load, and the check of the revision: refused, the call leaves without a change.
LoadState(p) ==
    /\ at[p] = "working"
    /\ loaded' = [loaded EXCEPT ![p] = IF operation[p] = "save" THEN known[p] ELSE state]
    /\ at' = [at EXCEPT ![p] = IF Accepted(p) THEN "loaded" ELSE "leaving"]
    /\ UNCHANGED <<rule, file, displaced, fault, operation, known, state, confirmed>>

\* _write_unlocked: a temporary file replaces the state in one step.
WriteState(p) ==
    /\ at[p] = "loaded"
    /\ state' = [revision |-> loaded[p].revision + 1, changes |-> loaded[p].changes \cup {p}]
    /\ confirmed' = confirmed \cup {p}
    /\ at' = [at EXCEPT ![p] = "leaving"]
    /\ UNCHANGED <<rule, file, displaced, fault, operation, known, loaded>>

\* The caller of a save reads the state without the lock.
ReadState(p) ==
    /\ at[p] = "waiting" /\ operation[p] = "save" /\ known[p] # state
    /\ known' = [known EXCEPT ![p] = state]
    /\ UNCHANGED <<lockVars, operation, loaded, state, confirmed>>

StoreInit ==
    /\ operation \in [Processes -> {"create", "transaction", "save"}]
    /\ state \in {Nothing, [revision |-> 1, changes |-> {}]}
    /\ known = [p \in Processes |-> Nothing] /\ loaded = known
    /\ confirmed = {}

StoreNext ==
    \/ LockStep /\ UNCHANGED <<operation, known, loaded, state, confirmed>>
    \/ \E p \in Processes : LoadState(p) \/ WriteState(p) \/ ReadState(p)

-----------------------------------------------------------------------------
(* Properties. *)

StoreTypeOK ==
    /\ operation \in [Processes -> {"create", "transaction", "save"}]
    /\ {state} \cup {known[p] : p \in Processes} \cup {loaded[p] : p \in Processes}
          \subseteq [revision : Nat, changes : SUBSET Processes]
    /\ confirmed \subseteq Processes

\* A change whose call has returned is in the state, and stays in it, unless a lock was
\* taken from a process that still worked (the store's docstring: revision checks prevent
\* stale writers from silently replacing a newer state).
ChangesAreKept == ~displaced => confirmed \subseteq state.changes

Contents(s) == [exists |-> s # Nothing, changes |-> s.changes]

Atomic == INSTANCE AtomicState WITH Callers <- Processes, value <- Contents(state),
                                    seen <- [p \in Processes |-> Contents(known[p])],
                                    broken <- displaced

\* The lock file and the revisions implement the atomic changes that all callers of the
\* store rely on (create, save and transaction).
ImplementsAtomicState == Atomic!AtomicSpec
=============================================================================
