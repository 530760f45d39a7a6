----------------------------- MODULE LeaseFence -----------------------------
(***************************************************************************)
(* LeaseFenceStore (tankai/dev_orchestrator/fencing.py): one row per scope *)
(* in a SQLite database of its own.  Every operation is one BEGIN          *)
(* IMMEDIATE transaction, hence one action here; callers are composed with *)
(* the store in JobQueue.                                                  *)
(*                                                                         *)
(* 0 stands for SQL NULL, and epoch 0 for a scope that has no row yet.     *)
(* Tokens (secrets.token_urlsafe) are numbered in the order they are       *)
(* issued, so no two leases share one.                                     *)
(***************************************************************************)
EXTENDS Naturals

CONSTANTS Scopes,      \* scope_key: the repositories
          Holders,     \* job_id: the jobs that may hold a scope
          Durations,   \* lease_seconds after clamping, in clock units
          NoHolder,    \* job_id IS NULL
          MaxWait,     \* how long BEGIN IMMEDIATE may block after the caller read the clock
          MaxTime,     \* bound on the clock
          MaxIssued    \* bound on the leases issued

ASSUME FenceAssumption ==
    /\ NoHolder \notin Holders
    /\ Durations \subseteq Nat \ {0}
    /\ MaxWait \in Nat
    /\ MaxTime \in Nat
    /\ MaxIssued \in Nat

VARIABLES now,         \* the host's clock
          fence,       \* lease_fences
          issued       \* how many leases the store has issued

fenceVars == <<now, fence, issued>>

FenceRows == [epoch : Nat, job : Holders \cup {NoHolder}, token : Nat, expires : Nat]

NoRow == [epoch |-> 0, job |-> NoHolder, token |-> 0, expires |-> 0]

FenceInit ==
    /\ now = 1
    /\ fence = [s \in Scopes |-> NoRow]
    /\ issued = 0

(***************************************************************************)
(* acquire and renew read the clock before BEGIN IMMEDIATE, which may then *)
(* block on another writer: the instant they use is at most MaxWait old.   *)
(***************************************************************************)
Samples == {t \in 1..now : now - t <= MaxWait}

\* current(s).active
Live(s) == fence[s].job # NoHolder /\ fence[s].token # 0 /\ fence[s].expires > now

\* _validated_lease: raises FenceLost unless this holds.
Validated(s, j, e, k) ==
    /\ fence[s].epoch = e
    /\ fence[s].job = j
    /\ fence[s].token # 0 /\ fence[s].token = k
    /\ fence[s].expires > now

\* Mutation: acquire lets the next holder in one unit early.
AcquirableEarly(s, t) == ~(fence[s].expires > t + 1)

\* acquire raises FenceBusy exactly when this fails.
Acquirable(s, t) == ~(fence[s].expires > t)

-----------------------------------------------------------------------------
Acquire(s, j, d, t) ==
    /\ issued < MaxIssued
    /\ Acquirable(s, t)
    /\ issued' = issued + 1
    /\ fence' = [fence EXCEPT ![s] = [epoch |-> @.epoch + 1, job |-> j,
                                      token |-> issued + 1, expires |-> t + d]]
    /\ UNCHANGED now

Renew(s, j, e, k, d, t) ==
    /\ Validated(s, j, e, k)
    /\ fence' = [fence EXCEPT ![s].expires = t + d]
    /\ UNCHANGED <<now, issued>>

Release(s, j, e, k) ==
    /\ Validated(s, j, e, k)
    /\ fence' = [fence EXCEPT ![s] = [epoch |-> @.epoch, job |-> NoHolder,
                                      token |-> 0, expires |-> 0]]
    /\ UNCHANGED <<now, issued>>

\* force_expire_for_recovery compares nothing but the epoch.
ForceExpire(s, e) ==
    /\ e # 0 /\ fence[s].epoch = e
    /\ fence' = [fence EXCEPT ![s].expires = now - 1]
    /\ UNCHANGED <<now, issued>>

\* Time passes.
Tick ==
    /\ now < MaxTime
    /\ now' = now + 1
    /\ UNCHANGED <<fence, issued>>

\* Callers may present any credentials, their own or not, current or not.
FenceNext ==
    \/ \E s \in Scopes, j \in Holders, d \in Durations, t \in Samples : Acquire(s, j, d, t)
    \/ \E s \in Scopes, j \in Holders, e \in 1..MaxIssued, k \in 1..issued,
          d \in Durations, t \in Samples : Renew(s, j, e, k, d, t)
    \/ \E s \in Scopes, j \in Holders, e \in 1..MaxIssued, k \in 1..issued : Release(s, j, e, k)
    \/ \E s \in Scopes, e \in 1..MaxIssued : ForceExpire(s, e)
    \/ Tick

FenceSpec == FenceInit /\ [][FenceNext]_fenceVars

-----------------------------------------------------------------------------
\* The store's rows are well formed.
FenceTypeOK ==
    /\ now \in Nat \ {0}
    /\ fence \in [Scopes -> FenceRows]
    /\ issued \in Nat

\* A lease that has ended stays ended: nothing but a new epoch makes a scope
\* live again, whatever renewals and releases with old credentials arrive late
\* and whatever an operator does (renew, release, force_expire_for_recovery).
EndedLeaseStaysEnded ==
    [][\A s \in Scopes : fence[s].epoch = fence'[s].epoch /\ ~Live(s) => ~Live(s)']_fenceVars

Lock == INSTANCE FencedLock WITH gen <- [s \in Scopes |-> fence[s].epoch],
                                 held <- [s \in Scopes |-> Live(s)]

\* The rows, clocks and credentials implement the fenced lock the workers
\* rely on (the whole of fencing.py).
ImplementsFencedLock == Lock!LockSpec
=============================================================================
