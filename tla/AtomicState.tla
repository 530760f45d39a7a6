---------------------------- MODULE AtomicState ----------------------------
(***************************************************************************)
(* What the state store promises its callers, without files, locks and     *)
(* revisions: every call that returns has changed the state as it was at   *)
(* one instant, once, and nobody else's change is lost by it.  A save      *)
(* changes what its caller has read, and only as long as that is the       *)
(* state.  The promise ends where a lock is taken from a process at work.  *)
(*                                                                         *)
(* StateStore implements this specification (theorem StoreIsAtomic).       *)
(***************************************************************************)
CONSTANT Callers

VARIABLES
    operation,      \* what every caller does: "create", "transaction" or "save"
    value,          \* whether there is a state, and the callers whose change it contains
    seen,           \* what the caller of a save has read
    confirmed,      \* the callers whose change was made
    broken          \* the promise has ended

atomicVars == <<operation, value, seen, confirmed, broken>>

Absent == [exists |-> FALSE, changes |-> {}]
Present(changes) == [exists |-> TRUE, changes |-> changes]

AtomicInit ==
    /\ operation \in [Callers -> {"create", "transaction", "save"}]
    /\ value \in {Absent, Present({})}
    /\ seen = [c \in Callers |-> Absent]
    /\ confirmed = {} /\ broken = FALSE

Read(c) ==
    /\ seen' = [seen EXCEPT ![c] = value]
    /\ UNCHANGED <<operation, value, confirmed, broken>>

Apply(c) ==
    /\ ~broken /\ c \notin confirmed
    /\ operation[c] = "create" => value = Absent
    /\ operation[c] = "transaction" => value # Absent
    /\ operation[c] = "save" => value = seen[c]
    /\ value' = Present(value.changes \cup {c})
    /\ confirmed' = confirmed \cup {c}
    /\ UNCHANGED <<operation, seen, broken>>

\* Nothing is promised of the value from here on.
Break ==
    /\ broken'
    /\ confirmed \subseteq confirmed'
    /\ UNCHANGED operation

AtomicNext == Break \/ \E c \in Callers : Read(c) \/ Apply(c)

AtomicSpec == AtomicInit /\ [][AtomicNext]_atomicVars
=============================================================================
