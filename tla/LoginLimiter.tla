---------------------------- MODULE LoginLimiter ----------------------------
(***************************************************************************)
(* LoginRateLimiter and Handler._login (tankai/web/server.py), with        *)
(* AuthStore.authenticate as the verdict on the password: the attempts on  *)
(* one key (address and e-mail) by concurrent request threads.             *)
(*                                                                         *)
(* allowed, the verification of the password and failure or success are    *)
(* three steps: other threads come in between.  Each reads the clock       *)
(* before it takes the lock, up to MaxLag earlier.                         *)
(***************************************************************************)
EXTENDS Integers, FiniteSets

CONSTANTS Logins,       \* the threads that log in
          AttemptLimit, \* limit
          AttemptWindow,\* window_seconds
          BlockTime,    \* block_seconds
          MaxLag,       \* how old a reading of the clock may be when it is used
          LastTime,     \* bound on the clock
          MaxTries      \* bound on the passwords tried

ASSUME LoginAssumption ==
    /\ IsFiniteSet(Logins)
    /\ AttemptLimit \in Nat \ {0} /\ AttemptWindow \in Nat \ {0} /\ BlockTime \in Nat
    /\ MaxLag \in Nat /\ LastTime \in Nat /\ MaxTries \in Nat

VARIABLES time,         \* time.monotonic()
          attempts,     \* _attempts: the failures that count
          blockedUntil, \* _blocked_until
          login,        \* what each thread is doing
          tried         \* the wrong passwords tried since the last right one

loginVars == <<time, attempts, blockedUntil, login, tried>>

LoginInit ==
    /\ time = 0
    /\ attempts = {}
    /\ blockedUntil = 0
    /\ login = [l \in Logins |-> "idle"]
    /\ tried = {}

ClockReadings == {t \in 0..time : time - t <= MaxLag}

\* The order of a list of times does not matter: those of one instant are numbered.
Event == [at : Nat, nth : Nat]
With(S, t) == S \cup {[at |-> t, nth |-> Cardinality({e \in S : e.at = t})]}

Since(S, t) == {e \in S : e.at >= t}
InWindow(S, t) == Since(S, t - AttemptWindow)

\* allowed: False with 429, before the password is looked at.
Allows(t) == blockedUntil <= t /\ Cardinality(InWindow(attempts, t)) < AttemptLimit

Allowed(l) ==
    \E t \in ClockReadings :
        /\ login[l] = "idle"
        /\ attempts' = IF blockedUntil > t THEN attempts ELSE InWindow(attempts, t)
        /\ login' = IF Allows(t) THEN [login EXCEPT ![l] = "verifying"] ELSE login
        /\ UNCHANGED <<time, blockedUntil, tried>>

\* authenticate finds the password wrong.
WrongPassword(l) ==
    /\ login[l] = "verifying" /\ Cardinality(tried) < MaxTries
    /\ tried' = With(tried, time)
    /\ login' = [login EXCEPT ![l] = "failed"]
    /\ UNCHANGED <<time, attempts, blockedUntil>>

\* authenticate finds it right, and stores a session.
RightPassword(l) ==
    /\ login[l] = "verifying"
    /\ login' = [login EXCEPT ![l] = "passed"]
    /\ UNCHANGED <<time, attempts, blockedUntil, tried>>

\* failure
RecordFailure(l) ==
    \E t \in ClockReadings :
        LET current == With(InWindow(attempts, t), t)
        IN  /\ login[l] = "failed"
            /\ attempts' = current
            /\ blockedUntil' = IF Cardinality(current) >= AttemptLimit THEN t + BlockTime ELSE blockedUntil
            /\ login' = [login EXCEPT ![l] = "idle"]
            /\ UNCHANGED <<time, tried>>

\* success: the key starts afresh.
RecordSuccess(l) ==
    /\ login[l] = "passed"
    /\ attempts' = {}
    /\ blockedUntil' = 0
    /\ tried' = {}
    /\ login' = [login EXCEPT ![l] = "idle"]
    /\ UNCHANGED time

LoginTick ==
    /\ time < LastTime
    /\ time' = time + 1
    /\ UNCHANGED <<attempts, blockedUntil, login, tried>>

LoginNext ==
    \/ \E l \in Logins : \/ Allowed(l) \/ WrongPassword(l) \/ RightPassword(l)
                         \/ RecordFailure(l) \/ RecordSuccess(l)
    \/ LoginTick

-----------------------------------------------------------------------------
LoginTypeOK ==
    /\ time \in 0..LastTime
    /\ attempts \subseteq Event /\ tried \subseteq Event
    /\ blockedUntil \in 0..(LastTime + BlockTime)
    /\ login \in [Logins -> {"idle", "verifying", "failed", "passed"}]

\* What a thread tries counts only once failure has recorded it, so threads that were let in
\* together can exceed the limit; but by no more than one each: in any stretch of the window
\* no more than limit + threads - 1 wrong passwords are tried.
TriesAreBounded ==
    Cardinality(Since(tried, time - (AttemptWindow - MaxLag)))
        <= AttemptLimit + Cardinality(Logins) - 1
=============================================================================
