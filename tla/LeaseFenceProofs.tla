-------------------------- MODULE LeaseFenceProofs --------------------------
(***************************************************************************)
(* Proofs about the fence store: its rows are well formed, a lease that    *)
(* has ended stays ended, and the store implements FencedLock, for any     *)
(* scopes, jobs, lease lengths and bounds.                                 *)
(***************************************************************************)
EXTENDS LeaseFence, TLAPS

\* A renewed or new lease carries a well-formed expiry (acquire, renew).
LEMMA SampleIsTime ==
    ASSUME FenceTypeOK, NEW t \in Samples, NEW d \in Durations
    PROVE  t \in Nat \ {0} /\ t + d \in Nat
BY FenceAssumption DEF FenceTypeOK, Samples

LEMMA FenceInitType == FenceInit => FenceTypeOK
BY DEF FenceInit, FenceTypeOK, FenceRows, NoRow

\* Each operation of the store keeps its rows well formed.
LEMMA AcquireType ==
    ASSUME FenceTypeOK, NEW s \in Scopes, NEW j \in Holders, NEW d \in Durations,
           NEW t \in Samples, Acquire(s, j, d, t)
    PROVE  FenceTypeOK'
<1>1. t + d \in Nat
  BY SampleIsTime
<1>2. [epoch |-> fence[s].epoch + 1, job |-> j, token |-> issued + 1, expires |-> t + d] \in FenceRows
  BY <1>1 DEF FenceTypeOK, FenceRows
<1> QED
  BY <1>2 DEF Acquire, FenceTypeOK

LEMMA RenewType ==
    ASSUME FenceTypeOK, NEW s \in Scopes, NEW j, NEW e, NEW k, NEW d \in Durations,
           NEW t \in Samples, Renew(s, j, e, k, d, t)
    PROVE  FenceTypeOK'
<1>1. t + d \in Nat
  BY SampleIsTime
<1> QED
  BY <1>1 DEF Renew, FenceTypeOK, FenceRows

LEMMA ReleaseType ==
    ASSUME FenceTypeOK, NEW s \in Scopes, NEW j, NEW e, NEW k, Release(s, j, e, k)
    PROVE  FenceTypeOK'
BY DEF Release, FenceTypeOK, FenceRows

LEMMA ForceExpireType ==
    ASSUME FenceTypeOK, NEW s \in Scopes, NEW e, ForceExpire(s, e)
    PROVE  FenceTypeOK'
BY DEF ForceExpire, FenceTypeOK, FenceRows

LEMMA TickType == FenceTypeOK /\ Tick => FenceTypeOK'
BY DEF Tick, FenceTypeOK

LEMMA FenceNextType == FenceTypeOK /\ [FenceNext]_fenceVars => FenceTypeOK'
<1> SUFFICES ASSUME FenceTypeOK, [FenceNext]_fenceVars
             PROVE  FenceTypeOK'
  OBVIOUS
<1>1. ASSUME NEW s \in Scopes, NEW j \in Holders, NEW d \in Durations, NEW t \in Samples,
             Acquire(s, j, d, t)
      PROVE  FenceTypeOK'
  BY <1>1, AcquireType
<1>2. ASSUME NEW s \in Scopes, NEW j \in Holders, NEW e \in 1..MaxIssued, NEW k \in 1..issued,
             NEW d \in Durations, NEW t \in Samples, Renew(s, j, e, k, d, t)
      PROVE  FenceTypeOK'
  BY <1>2, RenewType
<1>3. ASSUME NEW s \in Scopes, NEW j \in Holders, NEW e \in 1..MaxIssued, NEW k \in 1..issued,
             Release(s, j, e, k)
      PROVE  FenceTypeOK'
  BY <1>3, ReleaseType
<1>4. ASSUME NEW s \in Scopes, NEW e \in 1..MaxIssued, ForceExpire(s, e)
      PROVE  FenceTypeOK'
  BY <1>4, ForceExpireType
<1>5. CASE Tick
  BY <1>5, TickType
<1>6. CASE UNCHANGED fenceVars
  BY <1>6 DEF fenceVars, FenceTypeOK
<1> QED
  BY <1>1, <1>2, <1>3, <1>4, <1>5, <1>6 DEF FenceNext

\* The rows of the fence store are well formed in every state (fencing.py).
THEOREM FenceTypeCorrect == FenceSpec => []FenceTypeOK
<1>1. FenceInit => FenceTypeOK
  BY FenceInitType
<1>2. FenceTypeOK /\ [FenceNext]_fenceVars => FenceTypeOK'
  BY FenceNextType
<1> QED
  BY <1>1, <1>2, PTL DEF FenceSpec

-----------------------------------------------------------------------------
\* What one operation on one scope does to the abstract lock: it leaves the
\* other scopes alone and grants, keeps or ends this one.
LEMMA AcquireGrants ==
    ASSUME FenceTypeOK, NEW s \in Scopes, NEW j \in Holders, NEW d \in Durations,
           NEW t \in Samples, Acquire(s, j, d, t)
    PROVE  /\ ~Live(s)
           /\ \A r \in Scopes \ {s} : fence'[r] = fence[r] /\ Live(r)' = Live(r)
           /\ fence'[s].epoch = fence[s].epoch + 1
<1>1. t <= now /\ t \in Nat /\ now \in Nat /\ fence[s].expires \in Nat
  BY DEF Samples, FenceTypeOK, FenceRows
<1>2. ~Live(s)
  BY <1>1 DEF Acquire, Acquirable, Live
<1>3. \A r \in Scopes \ {s} : fence'[r] = fence[r]
  BY DEF Acquire, FenceTypeOK
<1>4. now' = now /\ fence'[s].epoch = fence[s].epoch + 1
  BY DEF Acquire, FenceTypeOK
<1> QED
  BY <1>2, <1>3, <1>4 DEF Live

\* Renewals, releases, revocations and time, with any credentials.
Upkeep ==
    \/ \E s \in Scopes, j \in Holders, d \in Durations, t \in Samples : \E e, k : Renew(s, j, e, k, d, t)
    \/ \E s \in Scopes, j \in Holders : \E e, k : Release(s, j, e, k)
    \/ \E s \in Scopes : \E e : ForceExpire(s, e)
    \/ Tick
    \/ UNCHANGED fenceVars

Grants ==
    \E s \in Scopes, j \in Holders, d \in Durations, t \in Samples : Acquire(s, j, d, t)

\* They keep every epoch and revive nothing.
LEMMA UpkeepOnlyLoses ==
    ASSUME FenceTypeOK, Upkeep, NEW r \in Scopes
    PROVE  fence'[r].epoch = fence[r].epoch /\ (Live(r)' => Live(r))
<1>0. /\ now \in Nat \ {0} /\ fence \in [Scopes -> FenceRows]
      /\ \A s \in Scopes : fence[s].expires \in Nat
  BY DEF FenceTypeOK, FenceRows
<1>1. ASSUME NEW s \in Scopes, NEW j \in Holders, NEW e, NEW k, NEW d \in Durations,
             NEW t \in Samples, Renew(s, j, e, k, d, t)
      PROVE  fence'[r].epoch = fence[r].epoch /\ (Live(r)' => Live(r))
  <2>1. j # NoHolder /\ now' = now
    BY <1>1, FenceAssumption DEF Renew
  <2>2. CASE r = s
    BY <1>0, <1>1, <2>1, <2>2 DEF Renew, Validated, Live, FenceRows
  <2>3. CASE r # s
    BY <1>0, <1>1, <2>1, <2>3 DEF Renew, Live
  <2> QED
    BY <2>2, <2>3
<1>2. ASSUME NEW s \in Scopes, NEW j \in Holders, NEW e, NEW k, Release(s, j, e, k)
      PROVE  fence'[r].epoch = fence[r].epoch /\ (Live(r)' => Live(r))
  BY <1>0, <1>2 DEF Release, Live, FenceRows
<1>3. ASSUME NEW s \in Scopes, NEW e, ForceExpire(s, e)
      PROVE  fence'[r].epoch = fence[r].epoch /\ (Live(r)' => Live(r))
  <2>1. now' = now /\ ~(now - 1 > now)
    BY <1>0, <1>3 DEF ForceExpire
  <2>2. CASE r = s
    BY <1>0, <1>3, <2>1, <2>2 DEF ForceExpire, Live, FenceRows
  <2>3. CASE r # s
    BY <1>0, <1>3, <2>1, <2>3 DEF ForceExpire, Live
  <2> QED
    BY <2>2, <2>3
<1>4. CASE Tick
  BY <1>0, <1>4 DEF Tick, Live
<1>5. CASE UNCHANGED fenceVars
  BY <1>5 DEF fenceVars, Live
<1> QED
  BY <1>1, <1>2, <1>3, <1>4, <1>5 DEF Upkeep

\* A lease that is still alive has the holder it had.
LEMMA UpkeepKeepsHolder ==
    ASSUME FenceTypeOK, Upkeep, NEW r \in Scopes, Live(r)'
    PROVE  fence'[r].job = fence[r].job
<1>0. fence \in [Scopes -> FenceRows]
  BY DEF FenceTypeOK
<1>1. ASSUME NEW s \in Scopes, NEW e, NEW k, NEW j, Release(s, j, e, k)
      PROVE  fence'[r].job = fence[r].job
  BY <1>0, <1>1 DEF Release, Live, FenceRows
<1> QED
  BY <1>0, <1>1 DEF Upkeep, Renew, ForceExpire, Tick, fenceVars, FenceRows

LEMMA FenceStepKinds == [FenceNext]_fenceVars => Grants \/ Upkeep
BY DEF FenceNext, Grants, Upkeep

LEMMA EndedStays ==
    ASSUME FenceTypeOK, Grants \/ Upkeep,
           NEW r \in Scopes, fence[r].epoch = fence'[r].epoch, ~Live(r)
    PROVE  ~Live(r)'
<1>1. ASSUME NEW s \in Scopes, NEW j \in Holders, NEW d \in Durations, NEW t \in Samples,
             Acquire(s, j, d, t)
      PROVE  ~Live(r)'
  <2>1. fence[r].epoch \in Nat
    BY DEF FenceTypeOK, FenceRows
  <2>2. r # s
    BY <1>1, <2>1, AcquireGrants
  <2> QED
    BY <1>1, <2>2, AcquireGrants
<1> QED
  BY <1>1, UpkeepOnlyLoses DEF Grants

(***************************************************************************)
(* The refinement: a granting step is a Grant of the abstract lock, every  *)
(* other one a Lose of the scopes that were live and no longer are.        *)
(***************************************************************************)
LEMMA AbstractInit == FenceInit => Lock!LockInit
<1> SUFFICES ASSUME FenceInit
             PROVE  Lock!LockInit
  OBVIOUS
<1>1. ASSUME NEW s \in Scopes
      PROVE  fence[s].epoch = 0 /\ fence[s].token = 0
  BY DEF FenceInit, NoRow
<1>2. ASSUME NEW s \in Scopes
      PROVE  Live(s) = FALSE
  BY <1>1 DEF Live
<1> QED
  BY <1>1, <1>2 DEF Lock!LockInit

LEMMA AbstractStep ==
    ASSUME FenceTypeOK, Grants \/ Upkeep
    PROVE  [Lock!LockNext]_(Lock!lockVars)
<1>1. ASSUME NEW s \in Scopes, NEW j \in Holders, NEW d \in Durations, NEW t \in Samples,
             Acquire(s, j, d, t)
      PROVE  Lock!Grant(s)
  <2>1. ~[r \in Scopes |-> Live(r)][s]
    BY <1>1, AcquireGrants
  <2>2. [r \in Scopes |-> fence[r].epoch]' = [[r \in Scopes |-> fence[r].epoch] EXCEPT ![s] = @ + 1]
    BY <1>1, AcquireGrants
  <2>3. [r \in Scopes |-> Live(r)]' = [[r \in Scopes |-> Live(r)] EXCEPT ![s] = Live(s)']
    BY <1>1, AcquireGrants
  <2>4. Live(s)' \in BOOLEAN
    BY DEF Live
  <2> QED
    BY <2>1, <2>2, <2>3, <2>4 DEF Lock!Grant
<1>2. ASSUME \A r \in Scopes : fence'[r].epoch = fence[r].epoch /\ (Live(r)' => Live(r))
      PROVE  Lock!LockNext
  <2> DEFINE S == {r \in Scopes : Live(r) /\ ~Live(r)'}
  <2>1. S \in SUBSET Scopes
    OBVIOUS
  <2>2. Lock!Lose(S)
    <3>1. \A r \in S : [q \in Scopes |-> Live(q)][r]
      OBVIOUS
    <3>2. [q \in Scopes |-> Live(q)]'
            = [r \in Scopes |-> [q \in Scopes |-> Live(q)][r] /\ r \notin S]
      <4>1. ASSUME NEW r \in Scopes
            PROVE  Live(r)' = (Live(r) /\ r \notin S)
        BY <1>2 DEF Live
      <4> QED
        BY <4>1
    <3>3. [r \in Scopes |-> fence[r].epoch]' = [r \in Scopes |-> fence[r].epoch]
      BY <1>2
    <3> QED
      BY <3>1, <3>2, <3>3 DEF Lock!Lose
  <2> QED
    BY <2>1, <2>2 DEF Lock!LockNext
<1> QED
  BY <1>1, <1>2, UpkeepOnlyLoses DEF Grants, Lock!LockNext

-----------------------------------------------------------------------------
\* A lease that has ended never becomes live again under its own epoch
\* (renew, release, force_expire_for_recovery against late callers).
THEOREM EndedLeasesStayEnded == FenceSpec => EndedLeaseStaysEnded
<1>1. FenceTypeOK /\ [FenceNext]_fenceVars
        => [\A s \in Scopes : fence[s].epoch = fence'[s].epoch /\ ~Live(s) => ~Live(s)']_fenceVars
  BY FenceStepKinds, EndedStays
<1> QED
  BY <1>1, FenceTypeCorrect, PTL DEF FenceSpec, EndedLeaseStaysEnded

\* The fence store implements the fenced lock: a step of the store is a grant,
\* a loss or invisible (fencing.py as a whole).
THEOREM LeaseFenceRefines == FenceSpec => ImplementsFencedLock
<1>1. FenceTypeOK /\ [FenceNext]_fenceVars => [Lock!LockNext]_(Lock!lockVars)
  BY FenceStepKinds, AbstractStep
<1> QED
  BY <1>1, AbstractInit, FenceTypeCorrect, PTL DEF FenceSpec, ImplementsFencedLock, Lock!LockSpec
=============================================================================
