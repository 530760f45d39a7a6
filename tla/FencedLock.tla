----------------------------- MODULE FencedLock -----------------------------
(***************************************************************************)
(* What the external fence store promises the workers, without clocks,     *)
(* credentials or database rows: each scope (a repository) is held by at   *)
(* most one generation at a time, generations are numbered in the order    *)
(* they are granted, and a generation that has been lost never comes back. *)
(*                                                                         *)
(* LeaseFence implements this specification (theorem LeaseFenceRefines).   *)
(***************************************************************************)
EXTENDS Naturals

CONSTANT Scopes      \* the repositories that are fenced

VARIABLES gen,       \* gen[s]: the number of the last generation granted on s
          held       \* held[s]: that generation still holds s

lockVars == <<gen, held>>

LockInit ==
    /\ gen = [s \in Scopes |-> 0]
    /\ held = [s \in Scopes |-> FALSE]

\* A free scope is granted to the next generation.  The grant may be
\* stillborn: a lease that has run out by the time its holder hears of it.
Grant(s) ==
    /\ ~held[s]
    /\ gen' = [gen EXCEPT ![s] = @ + 1]
    /\ \E alive \in BOOLEAN : held' = [held EXCEPT ![s] = alive]

\* Any number of generations end at once: they are released, revoked by an
\* operator, or they run out when the clock moves.
Lose(S) ==
    /\ \A s \in S : held[s]
    /\ held' = [s \in Scopes |-> held[s] /\ s \notin S]
    /\ UNCHANGED gen

LockNext ==
    \/ \E s \in Scopes : Grant(s)
    \/ \E S \in SUBSET Scopes : Lose(S)

LockSpec == LockInit /\ [][LockNext]_lockVars
=============================================================================
