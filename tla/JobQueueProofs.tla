---------------------------- MODULE JobQueueProofs ----------------------------
(***************************************************************************)
(* Proofs about the job queue and its dispatchers, for any number of jobs, *)
(* repositories, workers and policies and for every value of the bounds.   *)
(***************************************************************************)
EXTENDS JobQueue, LeaseFenceProofs, FiniteSetTheorems

(***************************************************************************)
(* Types and the discipline of the queue's write lock, together.           *)
(***************************************************************************)
USE DEF Jobs, Repos

TypeInv == TypeOK /\ LockDiscipline

LEMMA EndLeaseType ==
    ASSUME NEW row \in Rows, NEW retry
    PROVE  EndLease(row, retry) \in Rows
BY DEF EndLease, Rows, States, Active, Terminal

LEMMA RowUpdate ==
    ASSUME NEW row \in Rows, NEW st \in States, NEW e \in Nat
    PROVE  /\ [row EXCEPT !.state = st] \in Rows
           /\ [row EXCEPT !.expires = e] \in Rows
           /\ [row EXCEPT !.state = st, !.token = 0, !.expires = 0] \in Rows
BY DEF Rows

LEMMA AbsentRowType == AbsentRow \in Rows /\ Blank \in [Jobs -> Rows]
BY DEF AbsentRow, Blank, Rows, States

\* A worker past its claim has a lease, and the lease names a row.
LEMMA LeaseOf ==
    ASSUME TypeInv, NEW w \in Workers, pc[w] \in Claimed
    PROVE  lease[w] \in Leases /\ lease[w].job \in Jobs /\ jobs[lease[w].job] \in Rows
BY DEF TypeInv, TypeOK, LockDiscipline, Disciplined, Leases

LEMMA SpendType ==
    ASSUME TypeOK, NEW what \in {"faults", "forced", "policies", "restores"}, NEW max,
           Spend(what, max)
    PROVE  spent' \in [faults : Nat, forced : Nat, policies : Nat, restores : Nat]
BY DEF Spend, TypeOK

\* Steps of the fence store keep its rows well formed.
LEMMA FenceStepTypes ==
    ASSUME TypeOK
    PROVE  /\ \A s \in Scopes, j \in Holders, t \in Samples :
                 Acquire(s, j, ClaimLease, t) => FenceTypeOK'
           /\ \A s \in Scopes, t \in Samples : \A j, e, k :
                 Renew(s, j, e, k, BeatLease, t) => FenceTypeOK'
           /\ \A s \in Scopes : \A j, e, k : Release(s, j, e, k) => FenceTypeOK'
           /\ \A s \in Scopes : \A e : ForceExpire(s, e) => FenceTypeOK'
           /\ Tick => FenceTypeOK'
           /\ UNCHANGED fenceVars => FenceTypeOK'
<1>1. FenceTypeOK /\ ClaimLease \in Durations /\ BeatLease \in Durations
  BY QueueAssumption DEF TypeOK
<1>2. UNCHANGED fenceVars => FenceTypeOK'
  BY <1>1 DEF fenceVars, FenceTypeOK
<1> QED
  BY <1>1, <1>2, AcquireType, RenewType, ReleaseType, ForceExpireType, TickType

LEMMA PrepareAdmissionType ==
    ASSUME TypeInv, NEW j \in Jobs, PrepareAdmission(j)
    PROVE  TypeInv'
<1>1. TypeOK'
  BY FenceStepTypes, QueueAssumption DEF PrepareAdmission, PolicyOf, TypeInv, TypeOK
<1>2. ASSUME NEW v \in Workers
      PROVE  Disciplined(v)'
  BY QueueAssumption DEF PrepareAdmission, PolicyOf, TypeOK, TypeInv, LockDiscipline, Disciplined, Claimed, InTransaction, Beating
<1> QED
  BY <1>1, <1>2 DEF TypeInv, LockDiscipline

LEMMA EnqueueType ==
    ASSUME TypeInv, NEW j \in Jobs, Enqueue(j)
    PROVE  TypeInv'
<1>1. /\ plan[j].max_attempts \in Nat
      /\ [AbsentRow EXCEPT !.state = "queued", !.max_attempts = plan[j].max_attempts] \in Rows
  BY QueueAssumption DEF Enqueue, TypeInv, TypeOK, AbsentRow, Rows, States
<1>2. TypeOK'
  BY <1>1, FenceStepTypes DEF Enqueue, TypeInv, TypeOK
<1>3. ASSUME NEW v \in Workers
      PROVE  Disciplined(v)'
  BY QueueAssumption DEF Enqueue, TypeOK, TypeInv, LockDiscipline, Disciplined, Claimed, InTransaction, Beating
<1> QED
  BY <1>2, <1>3 DEF TypeInv, LockDiscipline

LEMMA CancelJobType ==
    ASSUME TypeInv, NEW j \in Jobs, CancelJob(j)
    PROVE  TypeInv'
<1>1. [jobs[j] EXCEPT !.state = "cancelled"] \in Rows
  BY RowUpdate DEF TypeInv, TypeOK, States, Terminal
<1>2. TypeOK'
  BY <1>1, FenceStepTypes DEF CancelJob, TypeInv, TypeOK
<1>3. ASSUME NEW v \in Workers
      PROVE  Disciplined(v)'
  BY QueueAssumption DEF CancelJob, TypeOK, TypeInv, LockDiscipline, Disciplined, Claimed, InTransaction, Beating
<1> QED
  BY <1>2, <1>3 DEF TypeInv, LockDiscipline

LEMMA SetPolicyType ==
    ASSUME TypeInv, NEW x \in Workspaces, NEW p \in Policies, SetPolicy(x, p)
    PROVE  TypeInv'
<1>1. spent' \in [faults : Nat, forced : Nat, policies : Nat, restores : Nat]
  BY SpendType DEF SetPolicy, TypeInv
<1>2. TypeOK'
  BY <1>1, FenceStepTypes DEF SetPolicy, TypeInv, TypeOK
<1>3. ASSUME NEW v \in Workers
      PROVE  Disciplined(v)'
  BY QueueAssumption DEF SetPolicy, TypeOK, TypeInv, LockDiscipline, Disciplined, Claimed, InTransaction, Beating
<1> QED
  BY <1>2, <1>3 DEF TypeInv, LockDiscipline

LEMMA ClaimBeginType ==
    ASSUME TypeInv, NEW w \in Workers, ClaimBegin(w)
    PROVE  TypeInv'
<1>1. txn' \in [Jobs -> Rows]
  <2>1. PICK t \in Samples : txn' = Recovered(t)
    BY DEF ClaimBegin
  <2>2. ASSUME NEW j \in Jobs
        PROVE  Recovered(t)[j] \in Rows
    <3>1. jobs[j] \in Rows /\ fence[RepoOf[j]].expires \in Nat
      BY QueueAssumption DEF TypeInv, TypeOK, FenceTypeOK, FenceRows
    <3>2. [jobs[j] EXCEPT !.expires = fence[RepoOf[j]].expires] \in Rows
      BY <3>1 DEF Rows
    <3>3. EndLease(jobs[j], jobs[j].attempts < jobs[j].max_attempts) \in Rows
      BY <3>1, EndLeaseType
    <3> QED
      BY <3>1, <3>2, <3>3 DEF Recovered
  <2> QED
    BY <2>1, <2>2 DEF Recovered
<1>2. TypeOK'
  BY <1>1, FenceStepTypes DEF ClaimBegin, TypeInv, TypeOK
<1>3. ASSUME NEW v \in Workers
      PROVE  Disciplined(v)'
  BY QueueAssumption DEF ClaimBegin, TypeOK, TypeInv, LockDiscipline, Disciplined, Claimed, InTransaction, Beating
<1> QED
  BY <1>2, <1>3 DEF TypeInv, LockDiscipline

\* What the scan of claim_next leaves behind.
LEMMA ScannedType ==
    ASSUME TypeOK, NEW passed
    PROVE  Scanned(passed) \in [Jobs -> Rows]
<1>1. ASSUME NEW k \in Jobs
      PROVE  txn[k] \in Rows /\ [txn[k] EXCEPT !.state = "failed"] \in Rows
  BY RowUpdate DEF TypeOK, States, Terminal
<1> QED
  BY <1>1 DEF Scanned

LEMMA LeasedWithType ==
    ASSUME NEW row \in Rows, NEW f \in FenceRows
    PROVE  LeasedWith(row, f) \in Rows
<1>1. row.attempts + 1 \in Nat /\ f.token \in Nat /\ f.expires \in Nat /\ f.epoch \in Nat
  BY DEF Rows, FenceRows
<1> QED
  BY <1>1 DEF LeasedWith, Rows, States, Active

\* The lease that ClaimSelect hands out is the fence row just acquired.
Taken(w, j, t) ==
    /\ Claimable(j, t)
    /\ Acquire(RepoOf[j], j, ClaimLease, t)
    /\ \E passed \in SUBSET Candidates :
          txn' = [Scanned(passed) EXCEPT
                    ![j] = LeasedWith(@, fence'[RepoOf[j]])]
    /\ lease' = [lease EXCEPT ![w] = [job |-> j, token |-> fence'[RepoOf[j]].token,
                                      epoch |-> fence'[RepoOf[j]].epoch, expires |-> 0]]
    /\ pc[w] = "select" /\ pc' = [pc EXCEPT ![w] = "commit"]
    /\ UNCHANGED <<jobs, policy, plan, lock, beat, count, lastStage, operator, backup, spent>>

LEMMA ClaimSelectTakes ==
    ASSUME NEW w \in Workers, ClaimSelect(w)
    PROVE  \E t \in Samples, j \in Jobs : Taken(w, j, t)
<1>1. PICK t \in Samples, j \in Jobs :
        /\ Claimable(j, t)
        /\ Acquire(RepoOf[j], j, ClaimLease, t)
        /\ txn' = [Scanned({k \in Candidates : Rank[k] < Rank[j]}) EXCEPT
                      ![j] = LeasedWith(@, fence'[RepoOf[j]])]
        /\ lease' = [lease EXCEPT ![w] = [job |-> j, token |-> fence'[RepoOf[j]].token,
                                          epoch |-> fence'[RepoOf[j]].epoch, expires |-> 0]]
  BY DEF ClaimSelect
<1>2. {k \in Candidates : Rank[k] < Rank[j]} \in SUBSET Candidates
  OBVIOUS
<1> QED
  BY <1>1, <1>2 DEF ClaimSelect, Taken

LEMMA ClaimSelectType ==
    ASSUME TypeInv, NEW w \in Workers, ClaimSelect(w)
    PROVE  TypeInv'
<1>1. PICK t \in Samples, j \in Jobs : Taken(w, j, t)
  BY ClaimSelectTakes
<1>2. FenceTypeOK'
  <2>1. Acquire(RepoOf[j], j, ClaimLease, t) /\ RepoOf[j] \in Repos
    BY <1>1, QueueAssumption DEF Taken
  <2> QED
    BY <2>1, FenceStepTypes DEF TypeInv
<1>3. fence'[RepoOf[j]] \in FenceRows
  BY <1>2, QueueAssumption DEF FenceTypeOK
<1>4. txn' \in [Jobs -> Rows]
  <2>1. PICK passed \in SUBSET Candidates :
          txn' = [Scanned(passed) EXCEPT
                    ![j] = LeasedWith(@, fence'[RepoOf[j]])]
    BY <1>1 DEF Taken
  <2>2. Scanned(passed) \in [Jobs -> Rows]
    BY ScannedType DEF TypeInv
  <2>3. LeasedWith(Scanned(passed)[j], fence'[RepoOf[j]]) \in Rows
    BY <1>3, <2>2, LeasedWithType
  <2> QED
    BY <2>1, <2>2, <2>3
<1>5. lease' \in [Workers -> Leases \cup {NoLease}]
  BY <1>1, <1>3 DEF Taken, TypeInv, TypeOK, FenceRows, Leases
<1>6. TypeOK'
  BY <1>1, <1>2, <1>4, <1>5 DEF Taken, TypeInv, TypeOK
<1>7. ASSUME NEW v \in Workers
      PROVE  Disciplined(v)'
  BY <1>1, QueueAssumption DEF Taken, TypeOK, TypeInv, LockDiscipline, Disciplined, Claimed,
     InTransaction, Beating
<1> QED
  BY <1>6, <1>7 DEF TypeInv, LockDiscipline

LEMMA ClaimNothingType ==
    ASSUME TypeInv, NEW w \in Workers, ClaimNothing(w)
    PROVE  TypeInv'
<1>1. TypeOK'
  BY FenceStepTypes, ScannedType DEF ClaimNothing, TypeInv, TypeOK
<1>2. ASSUME NEW v \in Workers
      PROVE  Disciplined(v)'
  BY QueueAssumption DEF ClaimNothing, TypeOK, TypeInv, LockDiscipline, Disciplined, Claimed, InTransaction, Beating
<1> QED
  BY <1>1, <1>2 DEF TypeInv, LockDiscipline

LEMMA ClaimCommitType ==
    ASSUME TypeInv, NEW w \in Workers, ClaimCommit(w)
    PROVE  TypeInv'
<1>1. TypeOK'
  BY FenceStepTypes, AbsentRowType DEF ClaimCommit, TypeInv, TypeOK
<1>2. ASSUME NEW v \in Workers
      PROVE  Disciplined(v)'
  BY QueueAssumption DEF ClaimCommit, TypeOK, TypeInv, LockDiscipline, Disciplined, Claimed, InTransaction, Beating
<1> QED
  BY <1>1, <1>2 DEF TypeInv, LockDiscipline

LEMMA ClaimAbortType ==
    ASSUME TypeInv, NEW w \in Workers, ClaimAbort(w)
    PROVE  TypeInv'
<1>1. spent' \in [faults : Nat, forced : Nat, policies : Nat, restores : Nat]
  BY SpendType DEF ClaimAbort, TypeInv
<1>2. TypeOK'
  BY <1>1, FenceStepTypes, AbsentRowType DEF ClaimAbort, TypeInv, TypeOK
<1>3. ASSUME NEW v \in Workers
      PROVE  Disciplined(v)'
  BY QueueAssumption DEF ClaimAbort, TypeOK, TypeInv, LockDiscipline, Disciplined, Claimed, InTransaction, Beating
<1> QED
  BY <1>2, <1>3 DEF TypeInv, LockDiscipline

LEMMA HeartbeatCheckType ==
    ASSUME TypeInv, NEW w \in Workers, HeartbeatCheck(w)
    PROVE  TypeInv'
<1>1. lock' \in (Workers \X {"main", "beat"}) \cup {Unlocked}
  BY DEF HeartbeatCheck, TypeInv, TypeOK
<1>2. /\ pc' \in [Workers -> {"idle", "select", "commit", "leased", "start", "starting",
                           "running", "authorised", "completing", "failing", "closing",
                           "release", "join"}]
      /\ beat' \in [Workers -> {"off", "on", "checked", "renewed", "lost"}]
  BY DEF HeartbeatCheck, BeatFails, TypeInv, TypeOK
<1>3. TypeOK'
  BY <1>1, <1>2, FenceStepTypes DEF HeartbeatCheck, BeatFails, TypeInv, TypeOK
<1>4. ASSUME NEW v \in Workers
      PROVE  Disciplined(v)'
  BY QueueAssumption DEF HeartbeatCheck, BeatFails, TypeOK, TypeInv, LockDiscipline, Disciplined, Claimed, InTransaction, Beating
<1> QED
  BY <1>3, <1>4 DEF TypeInv, LockDiscipline

LEMMA HeartbeatRenewType ==
    ASSUME TypeInv, NEW w \in Workers, HeartbeatRenew(w)
    PROVE  TypeInv'
<1>1. lease[w] \in Leases /\ lease[w].job \in Jobs
  BY LeaseOf DEF HeartbeatRenew, TypeInv, LockDiscipline, Disciplined
<1>2. FenceTypeOK'
  BY FenceStepTypes, <1>1, QueueAssumption DEF HeartbeatRenew, TypeInv
<1>3. lease'[w] \in Leases /\ lease' \in [Workers -> Leases \cup {NoLease}]
  <2>1. fence'[RepoOf[lease[w].job]].expires \in Nat
    BY <1>1, <1>2, QueueAssumption DEF FenceTypeOK, FenceRows
  <2> QED
    BY <1>1, <2>1 DEF HeartbeatRenew, TypeInv, TypeOK, Leases
<1>4. TypeOK'
  BY <1>1, <1>2, <1>3 DEF HeartbeatRenew, TypeInv, TypeOK
<1>5. ASSUME NEW v \in Workers
      PROVE  Disciplined(v)'
  BY <1>3, QueueAssumption DEF HeartbeatRenew, TypeOK, TypeInv, LockDiscipline, Disciplined, Claimed, InTransaction, Beating
<1> QED
  BY <1>4, <1>5 DEF TypeInv, LockDiscipline

LEMMA HeartbeatDeniedType ==
    ASSUME TypeInv, NEW w \in Workers, HeartbeatDenied(w)
    PROVE  TypeInv'
<1>1. TypeOK'
  BY FenceStepTypes DEF HeartbeatDenied, BeatFails, TypeInv, TypeOK
<1>2. ASSUME NEW v \in Workers
      PROVE  Disciplined(v)'
  BY QueueAssumption DEF HeartbeatDenied, BeatFails, TypeOK, TypeInv, LockDiscipline, Disciplined, Claimed, InTransaction, Beating
<1> QED
  BY <1>1, <1>2 DEF TypeInv, LockDiscipline

LEMMA HeartbeatCommitType ==
    ASSUME TypeInv, NEW w \in Workers, HeartbeatCommit(w)
    PROVE  TypeInv'
<1>1. /\ lease[w] \in Leases /\ lease[w].job \in Jobs
      /\ jobs[lease[w].job] \in Rows /\ lease[w].expires \in Nat
  BY LeaseOf DEF HeartbeatCommit, TypeInv, LockDiscipline, Disciplined, Leases
<1>2. jobs' \in [Jobs -> Rows]
  BY <1>1, RowUpdate DEF HeartbeatCommit, TypeInv, TypeOK, States
<1>3. lease'[w] \in Leases /\ lease' \in [Workers -> Leases \cup {NoLease}]
  BY <1>1 DEF HeartbeatCommit, TypeInv, TypeOK, Leases
<1>4. count' \in [Workers -> [beats : Nat, stages : Nat]]
  BY DEF HeartbeatCommit, TypeInv, TypeOK
<1>5. TypeOK'
  BY <1>1, <1>2, <1>3, <1>4, FenceStepTypes DEF HeartbeatCommit, TypeInv, TypeOK
<1>6. ASSUME NEW v \in Workers
      PROVE  Disciplined(v)'
  <2>0. lease'[w] # NoLease /\ lock' = Unlocked
        /\ <<w, "main">> # Unlocked /\ <<w, "beat">> # Unlocked
    BY <1>3, QueueAssumption DEF HeartbeatCommit
  <2>1. CASE v = w
    BY <2>0, <2>1 DEF HeartbeatCommit, TypeOK, TypeInv, LockDiscipline, Disciplined, Claimed, InTransaction, Beating
  <2>2. CASE v # w
    BY <1>3, <2>2, QueueAssumption DEF HeartbeatCommit, TypeOK, TypeInv, LockDiscipline, Disciplined, Claimed, InTransaction, Beating
  <2> QED
    BY <2>1, <2>2
<1> QED
  BY <1>5, <1>6 DEF TypeInv, LockDiscipline

LEMMA HeartbeatErrorType ==
    ASSUME TypeInv, NEW w \in Workers, HeartbeatError(w)
    PROVE  TypeInv'
<1>1. lease[w] \in Leases
  BY LeaseOf DEF HeartbeatError, TypeInv, LockDiscipline, Disciplined
<1>2. lease'[w] \in Leases /\ lease' \in [Workers -> Leases \cup {NoLease}]
  BY <1>1 DEF HeartbeatError, TypeInv, TypeOK, Leases
<1>3. spent' \in [faults : Nat, forced : Nat, policies : Nat, restores : Nat]
  BY SpendType DEF HeartbeatError, TypeInv
<1>4. TypeOK'
  BY <1>1, <1>2, <1>3, FenceStepTypes DEF HeartbeatError, BeatFails, TypeInv, TypeOK
<1>5. ASSUME NEW v \in Workers
      PROVE  Disciplined(v)'
  <2>0. lease'[w] # NoLease /\ lock' = Unlocked
        /\ <<w, "main">> # Unlocked /\ <<w, "beat">> # Unlocked
    BY <1>2, QueueAssumption DEF HeartbeatError
  <2>1. CASE v = w
    BY <2>0, <2>1 DEF HeartbeatError, BeatFails, TypeOK, TypeInv, LockDiscipline, Disciplined, Claimed, InTransaction, Beating
  <2>2. CASE v # w
    BY <1>2, <2>2, QueueAssumption DEF HeartbeatError, BeatFails, TypeOK, TypeInv, LockDiscipline, Disciplined, Claimed, InTransaction, Beating
  <2> QED
    BY <2>1, <2>2
<1> QED
  BY <1>4, <1>5 DEF TypeInv, LockDiscipline

LEMMA StartCheckType ==
    ASSUME TypeInv, NEW w \in Workers, StartCheck(w)
    PROVE  TypeInv'
<1>1. TypeOK'
  BY FenceStepTypes DEF StartCheck, Check, TypeInv, TypeOK
<1>2. ASSUME NEW v \in Workers
      PROVE  Disciplined(v)'
  BY QueueAssumption DEF StartCheck, Check, TypeOK, TypeInv, LockDiscipline, Disciplined, Claimed, InTransaction, Beating
<1> QED
  BY <1>1, <1>2 DEF TypeInv, LockDiscipline

LEMMA CompleteCheckType ==
    ASSUME TypeInv, NEW w \in Workers, CompleteCheck(w)
    PROVE  TypeInv'
<1>1. TypeOK'
  BY FenceStepTypes DEF CompleteCheck, Check, TypeInv, TypeOK
<1>2. ASSUME NEW v \in Workers
      PROVE  Disciplined(v)'
  BY QueueAssumption DEF CompleteCheck, Check, TypeOK, TypeInv, LockDiscipline, Disciplined, Claimed, InTransaction, Beating
<1> QED
  BY <1>1, <1>2 DEF TypeInv, LockDiscipline

LEMMA FailCheckType ==
    ASSUME TypeInv, NEW w \in Workers, FailCheck(w)
    PROVE  TypeInv'
<1>1. TypeOK'
  BY FenceStepTypes DEF FailCheck, Check, TypeInv, TypeOK
<1>2. ASSUME NEW v \in Workers
      PROVE  Disciplined(v)'
  BY QueueAssumption DEF FailCheck, Check, TypeOK, TypeInv, LockDiscipline, Disciplined, Claimed, InTransaction, Beating
<1> QED
  BY <1>1, <1>2 DEF TypeInv, LockDiscipline

LEMMA StartCommitType ==
    ASSUME TypeInv, NEW w \in Workers, StartCommit(w)
    PROVE  TypeInv'
<1>1. lease[w].job \in Jobs /\ jobs[lease[w].job] \in Rows
  BY LeaseOf DEF StartCommit, Claimed
<1>2. jobs' \in [Jobs -> Rows]
  BY <1>1, RowUpdate DEF StartCommit, Commit, TypeInv, TypeOK, States, Active
<1>3. TypeOK'
  BY <1>1, <1>2, FenceStepTypes DEF StartCommit, Commit, TypeInv, TypeOK
<1>4. ASSUME NEW v \in Workers
      PROVE  Disciplined(v)'
  BY QueueAssumption DEF StartCommit, Commit, TypeOK, TypeInv, LockDiscipline, Disciplined, Claimed, InTransaction, Beating
<1> QED
  BY <1>3, <1>4 DEF TypeInv, LockDiscipline

LEMMA CompleteCommitType ==
    ASSUME TypeInv, NEW w \in Workers, CompleteCommit(w)
    PROVE  TypeInv'
<1>1. lease[w].job \in Jobs /\ jobs[lease[w].job] \in Rows
  BY LeaseOf DEF CompleteCommit, Claimed
<1>2. jobs' \in [Jobs -> Rows]
  BY <1>1, RowUpdate DEF CompleteCommit, Commit, TypeInv, TypeOK, States, Terminal
<1>3. TypeOK'
  BY <1>1, <1>2, FenceStepTypes DEF CompleteCommit, Commit, TypeInv, TypeOK
<1>4. ASSUME NEW v \in Workers
      PROVE  Disciplined(v)'
  BY QueueAssumption DEF CompleteCommit, Commit, TypeOK, TypeInv, LockDiscipline, Disciplined, Claimed, InTransaction, Beating
<1> QED
  BY <1>3, <1>4 DEF TypeInv, LockDiscipline

LEMMA FailCommitType ==
    ASSUME TypeInv, NEW w \in Workers, FailCommit(w)
    PROVE  TypeInv'
<1>1. lease[w].job \in Jobs /\ jobs[lease[w].job] \in Rows
  BY LeaseOf DEF FailCommit, Claimed
<1>2. jobs' \in [Jobs -> Rows]
  BY <1>1, EndLeaseType DEF FailCommit, Commit, TypeInv, TypeOK
<1>3. TypeOK'
  BY <1>1, <1>2, FenceStepTypes DEF FailCommit, Commit, TypeInv, TypeOK
<1>4. ASSUME NEW v \in Workers
      PROVE  Disciplined(v)'
  BY QueueAssumption DEF FailCommit, Commit, TypeOK, TypeInv, LockDiscipline, Disciplined, Claimed, InTransaction, Beating
<1> QED
  BY <1>3, <1>4 DEF TypeInv, LockDiscipline

LEMMA GuardType ==
    ASSUME TypeInv, NEW w \in Workers, Guard(w)
    PROVE  TypeInv'
<1>1. TypeOK'
  BY FenceStepTypes DEF Guard, TypeInv, TypeOK
<1>2. ASSUME NEW v \in Workers
      PROVE  Disciplined(v)'
  BY QueueAssumption DEF Guard, TypeOK, TypeInv, LockDiscipline, Disciplined, Claimed, InTransaction, Beating
<1> QED
  BY <1>1, <1>2 DEF TypeInv, LockDiscipline

LEMMA StageType ==
    ASSUME TypeInv, NEW w \in Workers, Stage(w)
    PROVE  TypeInv'
<1>1. lease[w].epoch \in Nat /\ RepoOf[lease[w].job] \in Repos
  BY LeaseOf, QueueAssumption DEF Stage, Claimed, Leases
<1>2. TypeOK'
  BY <1>1, FenceStepTypes DEF Stage, TypeInv, TypeOK
<1>3. ASSUME NEW v \in Workers
      PROVE  Disciplined(v)'
  BY QueueAssumption DEF Stage, TypeOK, TypeInv, LockDiscipline, Disciplined, Claimed, InTransaction, Beating
<1> QED
  BY <1>2, <1>3 DEF TypeInv, LockDiscipline

LEMMA PipelineFailsType ==
    ASSUME TypeInv, NEW w \in Workers, PipelineFails(w)
    PROVE  TypeInv'
<1>1. TypeOK'
  BY FenceStepTypes DEF PipelineFails, TypeInv, TypeOK
<1>2. ASSUME NEW v \in Workers
      PROVE  Disciplined(v)'
  BY QueueAssumption DEF PipelineFails, TypeOK, TypeInv, LockDiscipline, Disciplined, Claimed, InTransaction, Beating
<1> QED
  BY <1>1, <1>2 DEF TypeInv, LockDiscipline

LEMMA CommitErrorType ==
    ASSUME TypeInv, NEW w \in Workers, CommitError(w)
    PROVE  TypeInv'
<1>1. spent' \in [faults : Nat, forced : Nat, policies : Nat, restores : Nat]
  BY SpendType DEF CommitError, TypeInv
<1>2. TypeOK'
  BY <1>1, FenceStepTypes DEF CommitError, TypeInv, TypeOK
<1>3. ASSUME NEW v \in Workers
      PROVE  Disciplined(v)'
  BY QueueAssumption DEF CommitError, TypeOK, TypeInv, LockDiscipline, Disciplined, Claimed, InTransaction, Beating
<1> QED
  BY <1>2, <1>3 DEF TypeInv, LockDiscipline

LEMMA ReleaseFenceType ==
    ASSUME TypeInv, NEW w \in Workers, ReleaseFence(w)
    PROVE  TypeInv'
<1>1. RepoOf[lease[w].job] \in Repos
  BY LeaseOf, QueueAssumption DEF ReleaseFence, Claimed
<1>2. FenceTypeOK'
  BY <1>1, FenceStepTypes DEF ReleaseFence, TypeInv
<1>3. TypeOK'
  BY <1>1, <1>2 DEF ReleaseFence, TypeInv, TypeOK
<1>4. ASSUME NEW v \in Workers
      PROVE  Disciplined(v)'
  BY QueueAssumption DEF ReleaseFence, TypeOK, TypeInv, LockDiscipline, Disciplined, Claimed, InTransaction, Beating
<1> QED
  BY <1>3, <1>4 DEF TypeInv, LockDiscipline

LEMMA JoinType ==
    ASSUME TypeInv, NEW w \in Workers, Join(w)
    PROVE  TypeInv'
<1>1. TypeOK'
  BY FenceStepTypes DEF Join, Reset, Idle, TypeInv, TypeOK
<1>2. ASSUME NEW v \in Workers
      PROVE  Disciplined(v)'
  BY QueueAssumption DEF Join, Reset, Idle, TypeOK, TypeInv, LockDiscipline, Disciplined, Claimed, InTransaction, Beating
<1> QED
  BY <1>1, <1>2 DEF TypeInv, LockDiscipline

LEMMA CrashType ==
    ASSUME TypeInv, NEW w \in Workers, Crash(w)
    PROVE  TypeInv'
<1>1. spent' \in [faults : Nat, forced : Nat, policies : Nat, restores : Nat]
  BY SpendType DEF Crash, TypeInv
<1>2. TypeOK'
  BY <1>1, FenceStepTypes, AbsentRowType DEF Crash, Reset, Idle, TypeInv, TypeOK
<1>3. ASSUME NEW v \in Workers
      PROVE  Disciplined(v)'
  BY QueueAssumption DEF Crash, Reset, Idle, TypeOK, TypeInv, LockDiscipline, Disciplined, Claimed, InTransaction, Beating
<1> QED
  BY <1>2, <1>3 DEF TypeInv, LockDiscipline

LEMMA OperatorConfirmType ==
    ASSUME TypeInv, NEW r \in Repos, OperatorConfirm(r)
    PROVE  TypeInv'
<1>1. spent' \in [faults : Nat, forced : Nat, policies : Nat, restores : Nat]
  BY SpendType DEF OperatorConfirm, TypeInv
<1>2. fence[r].epoch \in Nat
  BY DEF TypeInv, TypeOK, FenceTypeOK, FenceRows
<1>3. TypeOK'
  BY <1>1, <1>2, FenceStepTypes DEF OperatorConfirm, TypeInv, TypeOK
<1>4. ASSUME NEW v \in Workers
      PROVE  Disciplined(v)'
  BY QueueAssumption DEF OperatorConfirm, TypeOK, TypeInv, LockDiscipline, Disciplined, Claimed, InTransaction, Beating
<1> QED
  BY <1>3, <1>4 DEF TypeInv, LockDiscipline

LEMMA OperatorExpireType ==
    ASSUME TypeInv, NEW r \in Repos, OperatorExpire(r)
    PROVE  TypeInv'
<1>1. TypeOK'
  BY FenceStepTypes DEF OperatorExpire, TypeInv, TypeOK
<1>2. ASSUME NEW v \in Workers
      PROVE  Disciplined(v)'
  BY QueueAssumption DEF OperatorExpire, TypeOK, TypeInv, LockDiscipline, Disciplined, Claimed, InTransaction, Beating
<1> QED
  BY <1>1, <1>2 DEF TypeInv, LockDiscipline

LEMMA TakeBackupType ==
    ASSUME TypeInv, TakeBackup
    PROVE  TypeInv'
<1>1. TypeOK'
  BY FenceStepTypes DEF TakeBackup, TypeInv, TypeOK
<1>2. ASSUME NEW v \in Workers
      PROVE  Disciplined(v)'
  BY QueueAssumption DEF TakeBackup, TypeOK, TypeInv, LockDiscipline, Disciplined, Claimed, InTransaction, Beating
<1> QED
  BY <1>1, <1>2 DEF TypeInv, LockDiscipline

LEMMA RestoreQueueType ==
    ASSUME TypeInv, RestoreQueue
    PROVE  TypeInv'
<1>1. spent' \in [faults : Nat, forced : Nat, policies : Nat, restores : Nat]
  BY SpendType DEF RestoreQueue, TypeInv
<1>2. TypeOK'
  BY <1>1, FenceStepTypes DEF RestoreQueue, TypeInv, TypeOK
<1>3. ASSUME NEW v \in Workers
      PROVE  Disciplined(v)'
  BY QueueAssumption DEF RestoreQueue, TypeOK, TypeInv, LockDiscipline, Disciplined, Claimed, InTransaction, Beating
<1> QED
  BY <1>2, <1>3 DEF TypeInv, LockDiscipline

LEMMA PassType ==
    ASSUME TypeInv, Pass
    PROVE  TypeInv'
<1>1. TypeOK'
  BY FenceStepTypes DEF Pass, queueVars, TypeInv, TypeOK
<1>2. ASSUME NEW v \in Workers
      PROVE  Disciplined(v)'
  BY QueueAssumption DEF Pass, queueVars, TypeOK, TypeInv, LockDiscipline, Disciplined, Claimed, InTransaction, Beating
<1> QED
  BY <1>1, <1>2 DEF TypeInv, LockDiscipline

LEMMA InitType == Init => TypeInv
<1> SUFFICES ASSUME Init
             PROVE  TypeInv
  OBVIOUS
<1>1. TypeOK
  BY FenceInitType, AbsentRowType DEF Init, TypeOK, Idle
<1>2. ASSUME NEW w \in Workers
      PROVE  Disciplined(w)
  BY QueueAssumption DEF Init, Disciplined, Claimed, InTransaction, Beating
<1> QED
  BY <1>1, <1>2 DEF TypeInv, LockDiscipline

LEMMA NextType ==
    ASSUME TypeInv, [Next]_vars
    PROVE  TypeInv'
<1>1. ASSUME NEW j \in Jobs, PrepareAdmission(j)
      PROVE  TypeInv'
  BY <1>1, PrepareAdmissionType
<1>2. ASSUME NEW j \in Jobs, Enqueue(j)
      PROVE  TypeInv'
  BY <1>2, EnqueueType
<1>3. ASSUME NEW j \in Jobs, CancelJob(j)
      PROVE  TypeInv'
  BY <1>3, CancelJobType
<1>4. ASSUME NEW x \in Workspaces, NEW p \in Policies, SetPolicy(x, p)
      PROVE  TypeInv'
  BY <1>4, SetPolicyType
<1>5. ASSUME NEW w \in Workers, ClaimBegin(w)
      PROVE  TypeInv'
  BY <1>5, ClaimBeginType
<1>6. ASSUME NEW w \in Workers, ClaimSelect(w)
      PROVE  TypeInv'
  BY <1>6, ClaimSelectType
<1>7. ASSUME NEW w \in Workers, ClaimNothing(w)
      PROVE  TypeInv'
  BY <1>7, ClaimNothingType
<1>8. ASSUME NEW w \in Workers, ClaimCommit(w)
      PROVE  TypeInv'
  BY <1>8, ClaimCommitType
<1>9. ASSUME NEW w \in Workers, HeartbeatCheck(w)
      PROVE  TypeInv'
  BY <1>9, HeartbeatCheckType
<1>10. ASSUME NEW w \in Workers, HeartbeatRenew(w)
      PROVE  TypeInv'
  BY <1>10, HeartbeatRenewType
<1>11. ASSUME NEW w \in Workers, HeartbeatDenied(w)
      PROVE  TypeInv'
  BY <1>11, HeartbeatDeniedType
<1>12. ASSUME NEW w \in Workers, HeartbeatCommit(w)
      PROVE  TypeInv'
  BY <1>12, HeartbeatCommitType
<1>13. ASSUME NEW w \in Workers, StartCheck(w)
      PROVE  TypeInv'
  BY <1>13, StartCheckType
<1>14. ASSUME NEW w \in Workers, StartCommit(w)
      PROVE  TypeInv'
  BY <1>14, StartCommitType
<1>15. ASSUME NEW w \in Workers, Guard(w)
      PROVE  TypeInv'
  BY <1>15, GuardType
<1>16. ASSUME NEW w \in Workers, Stage(w)
      PROVE  TypeInv'
  BY <1>16, StageType
<1>17. ASSUME NEW w \in Workers, CompleteCheck(w)
      PROVE  TypeInv'
  BY <1>17, CompleteCheckType
<1>18. ASSUME NEW w \in Workers, CompleteCommit(w)
      PROVE  TypeInv'
  BY <1>18, CompleteCommitType
<1>19. ASSUME NEW w \in Workers, FailCheck(w)
      PROVE  TypeInv'
  BY <1>19, FailCheckType
<1>20. ASSUME NEW w \in Workers, FailCommit(w)
      PROVE  TypeInv'
  BY <1>20, FailCommitType
<1>21. ASSUME NEW w \in Workers, ReleaseFence(w)
      PROVE  TypeInv'
  BY <1>21, ReleaseFenceType
<1>22. ASSUME NEW w \in Workers, Join(w)
      PROVE  TypeInv'
  BY <1>22, JoinType
<1>23. ASSUME NEW w \in Workers, ClaimAbort(w)
      PROVE  TypeInv'
  BY <1>23, ClaimAbortType
<1>24. ASSUME NEW w \in Workers, HeartbeatError(w)
      PROVE  TypeInv'
  BY <1>24, HeartbeatErrorType
<1>25. ASSUME NEW w \in Workers, PipelineFails(w)
      PROVE  TypeInv'
  BY <1>25, PipelineFailsType
<1>26. ASSUME NEW w \in Workers, CommitError(w)
      PROVE  TypeInv'
  BY <1>26, CommitErrorType
<1>27. ASSUME NEW w \in Workers, Crash(w)
      PROVE  TypeInv'
  BY <1>27, CrashType
<1>28. ASSUME NEW r \in Repos, OperatorConfirm(r)
      PROVE  TypeInv'
  BY <1>28, OperatorConfirmType
<1>29. ASSUME NEW r \in Repos, OperatorExpire(r)
      PROVE  TypeInv'
  BY <1>29, OperatorExpireType
<1>30. CASE TakeBackup
  BY <1>30, TakeBackupType
<1>31. CASE RestoreQueue
  BY <1>31, RestoreQueueType
<1>32. CASE Pass
  BY <1>32, PassType
<1>33. CASE UNCHANGED vars
  BY <1>33 DEF vars, queueVars, fenceVars, TypeInv, TypeOK, FenceTypeOK, LockDiscipline, Disciplined
<1> QED
  BY <1>1, <1>2, <1>3, <1>4, <1>5, <1>6, <1>7, <1>8, <1>9, <1>10, <1>11, <1>12,
     <1>13, <1>14, <1>15, <1>16, <1>17, <1>18, <1>19, <1>20, <1>21, <1>22, <1>23,
     <1>24, <1>25, <1>26, <1>27, <1>28, <1>29, <1>30, <1>31, <1>32, <1>33
  DEF Next, Claim, Heartbeat, Run, Fault

\* The databases and the processes of the job queue hold well-formed values,
\* whatever the interleaving (job_queue.py, fencing.py).
THEOREM TypeCorrect == Spec => []TypeOK
<1>1. Init => TypeInv
  BY InitType
<1>2. TypeInv /\ [Next]_vars => TypeInv'
  BY NextType
<1>3. TypeInv => TypeOK
  BY DEF TypeInv
<1> QED
  BY <1>1, <1>2, <1>3, PTL DEF Spec

\* The write lock of the queue is held exactly by the thread that is inside a
\* transaction (every ROLLBACK and COMMIT of job_queue.py).
THEOREM LockIsDisciplined == Spec => []LockDiscipline
<1>1. Init => TypeInv
  BY InitType
<1>2. TypeInv /\ [Next]_vars => TypeInv'
  BY NextType
<1>3. TypeInv => LockDiscipline
  BY DEF TypeInv
<1> QED
  BY <1>1, <1>2, <1>3, PTL DEF Spec


-----------------------------------------------------------------------------
(***************************************************************************)
(* Safety of the job queue: what a transaction may rely on between its     *)
(* check and its commit, one active job per repository, bounded attempts,  *)
(* and what a finished job reports.                                        *)
(*                                                                         *)
(* CheckHoldsUntilCommit is inductive together with three facts about the  *)
(* tables: the committed one, the one a claim is building and the backup   *)
(* each have at most one active job per repository and count attempts      *)
(* correctly (Sound); a claim builds on the committed table (Kept); and a  *)
(* success in the backup is one in the table it was copied from            *)
(* (BackupKept).                                                           *)
(***************************************************************************)
OneActive(t) ==
    \A i, j \in Jobs : i # j /\ RepoOf[i] = RepoOf[j]
        => ~(t[i].state \in Active /\ t[j].state \in Active)

RowSound(row) ==
    /\ row.attempts <= row.max_attempts
    /\ row.state = "queued" => row.attempts < row.max_attempts

Sound(t) == OneActive(t) /\ \A j \in Jobs : RowSound(t[j])

Selecting == \E w \in Workers : pc[w] \in {"select", "commit"}

Kept ==
    Selecting => \A j \in Jobs :
        /\ jobs[j].state \in Terminal => txn[j] = jobs[j]
        /\ txn[j].state = "succeeded" => jobs[j].state = "succeeded"

BackupKept ==
    \A j \in Jobs : backup[j].state = "succeeded" => jobs[j].state = "succeeded"

Tables == Sound(jobs) /\ Sound(txn) /\ Sound(backup) /\ Kept /\ BackupKept

QueueInv == TypeInv /\ CheckHoldsUntilCommit /\ Tables

InCheck(w) == pc[w] \in {"starting", "completing", "closing"} \/ beat[w] \in Beating

LEMMA FreeLock ==
    ASSUME TypeInv, lock = Unlocked
    PROVE  ~Selecting /\ \A v \in Workers : ~InCheck(v)
<1>1. \A v \in Workers : <<v, "main">> # Unlocked /\ <<v, "beat">> # Unlocked
  BY QueueAssumption
<1> QED
  BY <1>1 DEF TypeInv, LockDiscipline, Disciplined, Selecting, InCheck, InTransaction

LEMMA InCheckLeased ==
    ASSUME TypeInv, NEW w \in Workers, InCheck(w)
    PROVE  pc[w] \in Claimed /\ lease[w] \in Leases /\ lease[w].job \in Jobs
<1>1. pc[w] \in Claimed
  BY DEF InCheck, TypeInv, LockDiscipline, Disciplined, Claimed, Beating
<1> QED
  BY <1>1, LeaseOf

\* A step that leaves the tables and all epochs alone keeps every check that
\* was already made; checks made by the step itself are given by the caller.
LEMMA StepKeeps ==
    ASSUME QueueInv, TypeInv',
           jobs' = jobs,
           \A r \in Repos : fence'[r].epoch = fence[r].epoch,
           \A v \in Workers : InCheck(v)' =>
               \/ /\ InCheck(v) /\ lease'[v].job = lease[v].job /\ lease'[v].token = lease[v].token
                  /\ (pc'[v] \in {"starting", "completing"} => pc'[v] = pc[v])
               \/ Checked(v)'
    PROVE  CheckHoldsUntilCommit'
<1> SUFFICES ASSUME NEW v \in Workers, InCheck(v)'
             PROVE  Checked(v)'
  BY DEF CheckHoldsUntilCommit, InCheck
<1>1. CASE Checked(v)'
  BY <1>1
<1>2. CASE /\ InCheck(v) /\ lease'[v].job = lease[v].job /\ lease'[v].token = lease[v].token
           /\ (pc'[v] \in {"starting", "completing"} => pc'[v] = pc[v])
  <2>1. Checked(v)
    BY <1>2 DEF QueueInv, CheckHoldsUntilCommit, InCheck
  <2>2. RepoOf[lease[v].job] \in Repos
    BY <1>2, InCheckLeased, QueueAssumption DEF QueueInv
  <2> QED
    BY <1>2, <2>1, <2>2 DEF Checked
<1> QED
  BY <1>1, <1>2

\* _leased_row establishes the check.
LEMMA LeasedRowChecks ==
    ASSUME TypeInv, NEW w \in Workers, NEW states \in SUBSET Active, LeasedRow(w, states)
    PROVE  /\ jobs[lease[w].job].state \in states
           /\ jobs[lease[w].job].token = lease[w].token
           /\ jobs[lease[w].job].epoch = fence[RepoOf[lease[w].job]].epoch
BY DEF LeasedRow, Validated

(***************************************************************************)
(* Three kinds of steps: those that leave the tables alone, those that end *)
(* with the lock free, and those that are inside a claim.                  *)
(***************************************************************************)
LEMMA QuietStep ==
    ASSUME QueueInv, TypeInv',
           UNCHANGED <<jobs, txn, backup>>,
           \A r \in Repos : fence'[r].epoch = fence[r].epoch,
           Selecting' => Selecting,
           \A v \in Workers : InCheck(v)' =>
               \/ /\ InCheck(v) /\ lease'[v].job = lease[v].job /\ lease'[v].token = lease[v].token
                  /\ (pc'[v] \in {"starting", "completing"} => pc'[v] = pc[v])
               \/ Checked(v)'
    PROVE  QueueInv'
<1>1. CheckHoldsUntilCommit'
  BY StepKeeps
<1>2. Tables'
  BY DEF QueueInv, Tables, Sound, OneActive, Kept, BackupKept
<1> QED
  BY <1>1, <1>2 DEF QueueInv

LEMMA FreeStep ==
    ASSUME TypeInv', lock' = Unlocked,
           Sound(jobs)', Sound(txn)', Sound(backup)', BackupKept'
    PROVE  QueueInv'
<1>1. \A v \in Workers : <<v, "main">> # Unlocked /\ <<v, "beat">> # Unlocked
  BY QueueAssumption
<1>2. ASSUME NEW v \in Workers
      PROVE  pc'[v] \notin InTransaction /\ beat'[v] \notin Beating
  BY <1>1 DEF TypeInv, LockDiscipline, Disciplined, InTransaction, Beating
<1>3. CheckHoldsUntilCommit' /\ Kept'
  BY <1>2 DEF CheckHoldsUntilCommit, Kept, Selecting, InTransaction
<1> QED
  BY <1>3 DEF QueueInv, Tables

LEMMA ClaimStep ==
    ASSUME QueueInv, TypeInv', NEW w \in Workers, pc'[w] \in {"select", "commit"},
           UNCHANGED <<jobs, backup>>, Sound(txn)',
           \A j \in Jobs : /\ jobs[j].state \in Terminal => txn'[j] = jobs[j]
                           /\ txn'[j].state = "succeeded" => jobs[j].state = "succeeded"
    PROVE  QueueInv'
<1>1. lock' = <<w, "main">>
  BY DEF TypeInv, LockDiscipline, Disciplined, InTransaction
<1>2. ASSUME NEW v \in Workers
      PROVE  pc'[v] \notin {"starting", "completing", "closing"} /\ beat'[v] \notin Beating
  BY <1>1 DEF TypeInv, LockDiscipline, Disciplined, InTransaction, Beating
<1>3. CheckHoldsUntilCommit'
  BY <1>2 DEF CheckHoldsUntilCommit
<1> QED
  BY <1>3 DEF QueueInv, Tables, Sound, OneActive, Kept, BackupKept

\* A table in which only rows that were active are active stays sound.
LEMMA FewerActive ==
    ASSUME NEW t, NEW u, OneActive(t),
           \A j \in Jobs : RowSound(u[j]) /\ (u[j].state \in Active => t[j].state \in Active)
    PROVE  Sound(u)
BY DEF Sound, OneActive

LEMMA RowReplaced ==
    ASSUME NEW t \in [Jobs -> Rows], Sound(t), NEW j \in Jobs, NEW row,
           RowSound(row), row.state \in Active => t[j].state \in Active
    PROVE  Sound([t EXCEPT ![j] = row])
<1> DEFINE u == [t EXCEPT ![j] = row]
<1>1. ASSUME NEW i \in Jobs
      PROVE  RowSound(u[i]) /\ (u[i].state \in Active => t[i].state \in Active)
  BY DEF Sound
<1> HIDE DEF u
<1>2. Sound(u)
  BY <1>1, FewerActive DEF Sound
<1> QED
  BY <1>2 DEF u

LEMMA BlankSound == Sound(Blank)
BY DEF Blank, Sound, OneActive, RowSound, AbsentRow, Active

(***************************************************************************)
(* Requests, policies, operators, backups and time.                        *)
(***************************************************************************)
LEMMA OtherSafe ==
    ASSUME QueueInv, TypeInv',
           \/ \E j \in Jobs : PrepareAdmission(j) \/ Enqueue(j) \/ CancelJob(j)
           \/ \E x \in Workspaces, p \in Policies : SetPolicy(x, p)
           \/ \E r \in Repos : OperatorConfirm(r) \/ OperatorExpire(r)
           \/ TakeBackup \/ RestoreQueue \/ Pass
    PROVE  QueueInv'
<1> USE DEF QueueInv
<1>0. /\ jobs \in [Jobs -> Rows] /\ Sound(jobs) /\ Sound(txn) /\ Sound(backup)
      /\ BackupKept
  BY DEF TypeInv, TypeOK, Tables
<1>1. ASSUME NEW j \in Jobs, PrepareAdmission(j)
      PROVE  QueueInv'
  BY <1>1, QuietStep DEF PrepareAdmission, fenceVars, Selecting, InCheck
<1>2. ASSUME NEW j \in Jobs, Enqueue(j)
      PROVE  QueueInv'
  <2> DEFINE row == [AbsentRow EXCEPT !.state = "queued", !.max_attempts = plan[j].max_attempts]
  <2>1. plan[j].max_attempts \in Nat \ {0}
    BY <1>2, QueueAssumption DEF Enqueue, TypeInv, TypeOK
  <2>2. RowSound(row) /\ row.state \notin Active
    BY <2>1 DEF RowSound, AbsentRow, Active
  <2>3. jobs' = jobs \/ (jobs[j].state = "absent" /\ jobs' = [jobs EXCEPT ![j] = row])
    BY <1>2 DEF Enqueue
  <2> HIDE DEF row
  <2>4. Sound(jobs')
    BY <1>0, <2>2, <2>3, RowReplaced
  <2>5. BackupKept'
    BY <1>0, <1>2, <2>3 DEF BackupKept, Enqueue
  <2> QED
    BY <1>0, <1>2, <2>4, <2>5, FreeStep DEF Enqueue
<1>3. ASSUME NEW j \in Jobs, CancelJob(j)
      PROVE  QueueInv'
  <2> DEFINE row == [jobs[j] EXCEPT !.state = "cancelled"]
  <2>1. RowSound(row) /\ row.state \notin Active /\ jobs' = [jobs EXCEPT ![j] = row]
    BY <1>0, <1>3 DEF CancelJob, Sound, RowSound, Active, Rows
  <2>2. jobs[j].state = "queued"
    BY <1>3 DEF CancelJob
  <2> HIDE DEF row
  <2>3. Sound(jobs')
    BY <1>0, <2>1, RowReplaced
  <2>4. BackupKept'
    BY <1>0, <1>3, <2>1, <2>2 DEF BackupKept, CancelJob
  <2> QED
    BY <1>0, <1>3, <2>3, <2>4, FreeStep DEF CancelJob
<1>4. ASSUME NEW x \in Workspaces, NEW p \in Policies, SetPolicy(x, p)
      PROVE  QueueInv'
  BY <1>4, QuietStep DEF SetPolicy, fenceVars, Selecting, InCheck
<1>5. ASSUME NEW r \in Repos, OperatorConfirm(r)
      PROVE  QueueInv'
  BY <1>5, QuietStep DEF OperatorConfirm, fenceVars, Selecting, InCheck
<1>6. ASSUME NEW r \in Repos, OperatorExpire(r)
      PROVE  QueueInv'
  <2>1. \A s \in Repos : fence'[s].epoch = fence[s].epoch
    BY <1>6 DEF OperatorExpire, ForceExpire, fenceVars, TypeInv, TypeOK, FenceTypeOK, FenceRows
  <2> QED
    BY <1>6, <2>1, QuietStep DEF OperatorExpire, Selecting, InCheck
<1>7. CASE TakeBackup
  BY <1>0, <1>7, FreeStep DEF TakeBackup, BackupKept
<1>8. CASE RestoreQueue
  BY <1>0, <1>8, FreeStep DEF RestoreQueue, BackupKept
<1>9. CASE Pass
  BY <1>9, QuietStep DEF Pass, Tick, queueVars, Selecting, InCheck
<1> QED
  BY <1>1, <1>2, <1>3, <1>4, <1>5, <1>6, <1>7, <1>8, <1>9

(***************************************************************************)
(* The claim.                                                              *)
(***************************************************************************)
LEMMA RecoveredSafe ==
    ASSUME QueueInv, NEW t
    PROVE  /\ Sound(Recovered(t))
           /\ \A j \in Jobs :
                 /\ jobs[j].state \in Terminal => Recovered(t)[j] = jobs[j]
                 /\ Recovered(t)[j].state = "succeeded" => jobs[j].state = "succeeded"
<1>1. ASSUME NEW j \in Jobs
      PROVE  /\ RowSound(Recovered(t)[j])
             /\ Recovered(t)[j].state \in Active => jobs[j].state \in Active
             /\ jobs[j].state \in Terminal => Recovered(t)[j] = jobs[j]
             /\ Recovered(t)[j].state = "succeeded" => jobs[j].state = "succeeded"
  <2>1. jobs[j] \in Rows /\ RowSound(jobs[j])
    BY DEF QueueInv, TypeInv, TypeOK, Tables, Sound
  <2> DEFINE row == Recovered(t)[j]
  <2>2. \/ row = jobs[j]
        \/ jobs[j].state \in Active /\ row = [jobs[j] EXCEPT !.expires = fence[RepoOf[j]].expires]
        \/ /\ jobs[j].state \in Active
           /\ row = EndLease(jobs[j], jobs[j].attempts < jobs[j].max_attempts)
    BY DEF Recovered
  <2> HIDE DEF row
  <2> SUFFICES /\ RowSound(row)
               /\ row.state \in Active => jobs[j].state \in Active
               /\ jobs[j].state \in Terminal => row = jobs[j]
               /\ row.state = "succeeded" => jobs[j].state = "succeeded"
    BY DEF row
  <2> QED
    BY <2>1, <2>2 DEF EndLease, RowSound, Rows, Active, Terminal
<1> HIDE DEF Recovered
<1>2. OneActive(jobs)
  BY DEF QueueInv, Tables, Sound
<1> QED
  BY <1>1, <1>2, FewerActive

\* The scan changes queued rows only, and only to failed ones.
LEMMA ScannedRows ==
    ASSUME QueueInv, NEW passed \in SUBSET Candidates, NEW k \in Jobs
    PROVE  \/ Scanned(passed)[k] = txn[k]
           \/ /\ txn[k].state = "queued" /\ Scanned(passed)[k].state = "failed"
              /\ RowSound(Scanned(passed)[k])
<1>1. txn[k] \in Rows /\ RowSound(txn[k])
  BY DEF QueueInv, TypeInv, TypeOK, Tables, Sound
<1>2. k \in passed => txn[k].state = "queued"
  BY DEF Candidates
<1> QED
  BY <1>1, <1>2 DEF Scanned, RowSound, Rows

LEMMA ScannedSound ==
    ASSUME QueueInv, NEW passed \in SUBSET Candidates
    PROVE  Sound(Scanned(passed))
<1>1. ASSUME NEW k \in Jobs
      PROVE  /\ RowSound(Scanned(passed)[k])
             /\ Scanned(passed)[k].state \in Active => txn[k].state \in Active
  BY ScannedRows DEF QueueInv, Tables, Sound, Active
<1> QED
  BY <1>1, FewerActive DEF QueueInv, Tables, Sound

\* The job taken had no active neighbour in its repository.
LEMMA TakenSafe ==
    ASSUME QueueInv, TypeInv', NEW w \in Workers, NEW j \in Jobs, NEW t \in Samples,
           Taken(w, j, t)
    PROVE  QueueInv'
<1>1. PICK passed \in SUBSET Candidates :
        txn' = [Scanned(passed) EXCEPT ![j] = LeasedWith(@, fence'[RepoOf[j]])]
  BY DEF Taken
<1> DEFINE before == Scanned(passed)
           row == LeasedWith(before[j], fence'[RepoOf[j]])
<1>2. txn' = [before EXCEPT ![j] = row] /\ before \in [Jobs -> Rows] /\ Sound(before)
  BY <1>1, ScannedType, ScannedSound DEF QueueInv, TypeInv
<1>3. /\ txn[j].state = "queued" /\ Admissible(j) /\ j \in Jobs
      /\ \A k \in Jobs : RepoOf[k] = RepoOf[j] => txn[k].state \notin Active
  BY DEF Taken, Claimable, HasCapacity, Candidates
<1>4. before[j] = txn[j]
  BY <1>3 DEF Scanned
<1>5. RowSound(row) /\ row.state = "leased"
  <2>1. txn[j] \in Rows /\ RowSound(txn[j])
    BY DEF QueueInv, TypeInv, TypeOK, Tables, Sound
  <2> QED
    BY <1>3, <1>4, <2>1 DEF LeasedWith, RowSound, Rows
<1>6. ASSUME NEW k \in Jobs
      PROVE  \/ before[k] = txn[k]
             \/ txn[k].state = "queued" /\ before[k].state = "failed"
  BY ScannedRows
<1>7. \A k \in Jobs : RepoOf[k] = RepoOf[j] => before[k].state \notin Active
  BY <1>3, <1>6 DEF Active
<1> HIDE DEF before, row
<1>8. Sound(txn')
  <2>1. \A k \in Jobs : txn'[k] = IF k = j THEN row ELSE before[k]
    BY <1>2
  <2> QED
    BY <1>2, <1>5, <1>7, <2>1 DEF Sound, OneActive
<1>9. ASSUME NEW k \in Jobs
      PROVE  /\ jobs[k].state \in Terminal => txn'[k] = jobs[k]
             /\ txn'[k].state = "succeeded" => jobs[k].state = "succeeded"
  <2>1. Selecting
    BY DEF Taken, Selecting
  <2>2. /\ jobs[k].state \in Terminal => txn[k] = jobs[k]
        /\ txn[k].state = "succeeded" => jobs[k].state = "succeeded"
    BY <2>1 DEF QueueInv, Tables, Kept
  <2>3. txn'[k] = IF k = j THEN row ELSE before[k]
    BY <1>2
  <2>4. "queued" \notin Terminal
    BY DEF Terminal
  <2> QED
    BY <1>3, <1>5, <1>6, <2>2, <2>3, <2>4
<1>10. pc'[w] = "commit" /\ UNCHANGED <<jobs, backup>>
  BY DEF Taken, QueueInv, TypeInv, TypeOK
<1> QED
  BY <1>8, <1>9, <1>10, ClaimStep

LEMMA ClaimSafe ==
    ASSUME QueueInv, TypeInv', NEW w \in Workers, Claim(w)
    PROVE  QueueInv'
<1>0. /\ Sound(jobs) /\ Sound(txn) /\ Sound(backup) /\ BackupKept /\ Kept
      /\ pc \in [Workers -> {"idle", "select", "commit", "leased", "start", "starting", "running",
                 "authorised", "completing", "failing", "closing", "release", "join"}]
  BY DEF QueueInv, TypeInv, TypeOK, Tables
<1>1. CASE ClaimBegin(w)
  <2>1. PICK t \in Samples : txn' = Recovered(t)
    BY <1>1 DEF ClaimBegin
  <2>2. pc'[w] = "select" /\ UNCHANGED <<jobs, backup>>
    BY <1>0, <1>1 DEF ClaimBegin
  <2> QED
    BY <2>1, <2>2, RecoveredSafe, ClaimStep
<1>2. CASE ClaimSelect(w)
  BY <1>2, ClaimSelectTakes, TakenSafe
<1>3. CASE ClaimNothing(w)
  <2>1. txn' = Scanned(Candidates) /\ Sound(txn')
    BY <1>3, ScannedSound DEF ClaimNothing
  <2>2. Selecting /\ pc'[w] = "commit" /\ UNCHANGED <<jobs, backup>>
    BY <1>0, <1>3 DEF ClaimNothing, Selecting
  <2>3. ASSUME NEW k \in Jobs
        PROVE  /\ jobs[k].state \in Terminal => txn'[k] = jobs[k]
               /\ txn'[k].state = "succeeded" => jobs[k].state = "succeeded"
    <3>1. txn'[k] = txn[k] \/ (txn[k].state = "queued" /\ txn'[k].state = "failed")
      BY <2>1, ScannedRows
    <3> QED
      BY <1>0, <2>2, <3>1 DEF Kept, Terminal
  <2> QED
    BY <2>1, <2>2, <2>3, ClaimStep
<1>4. CASE ClaimCommit(w)
  <2>1. Selecting
    BY <1>4 DEF ClaimCommit, Selecting
  <2>2. BackupKept'
    BY <1>0, <1>4, <2>1 DEF BackupKept, Kept, ClaimCommit, Terminal
  <2>3. lock' = Unlocked /\ Sound(jobs)' /\ Sound(txn)' /\ Sound(backup)'
    BY <1>0, <1>4, BlankSound DEF ClaimCommit, Blank
  <2> QED
    BY <2>2, <2>3, FreeStep
<1> QED
  BY <1>1, <1>2, <1>3, <1>4 DEF Claim

(***************************************************************************)
(* Transactions of a claimed job: a check that succeeds establishes        *)
(* Checked, the commit relies on it.                                       *)
(***************************************************************************)
LEMMA CheckSafe ==
    ASSUME QueueInv, TypeInv', NEW w \in Workers, NEW states \in SUBSET Active, NEW held, NEW failed,
           Check(w, states, held, failed),
           held \in {"starting", "completing", "closing"},
           held = "starting" => states = {"leased"},
           held = "completing" => states = {"running"},
           failed \in {"failing", "join"}
    PROVE  QueueInv'
<1>1. /\ ~Selecting /\ \A v \in Workers : ~InCheck(v)
      /\ pc \in [Workers -> {"idle", "select", "commit", "leased", "start", "starting", "running",
                 "authorised", "completing", "failing", "closing", "release", "join"}]
  BY FreeLock DEF QueueInv, Check, TypeInv, TypeOK
<1>2. UNCHANGED <<jobs, txn, backup, lease, beat, fence>>
  BY DEF Check, fenceVars
<1>3. ~Selecting'
  BY <1>1 DEF Check, Selecting
<1>4. ASSUME NEW v \in Workers, InCheck(v)'
      PROVE  Checked(v)'
  <2>1. v = w /\ LeasedRow(w, states) /\ pc'[w] = held
    BY <1>1, <1>2, <1>4 DEF Check, InCheck
  <2>2. Checked(w)'
    BY <1>2, <2>1, LeasedRowChecks DEF QueueInv, Checked
  <2> QED
    BY <2>1, <2>2
<1> QED
  BY <1>2, <1>3, <1>4, QuietStep

LEMMA CommitSafe ==
    ASSUME QueueInv, TypeInv', NEW w \in Workers, NEW row, NEW next, Commit(w, row, next),
           InCheck(w), RowSound(row)
    PROVE  QueueInv'
<1>1. /\ lease[w].job \in Jobs /\ jobs[lease[w].job].state \in Active
      /\ jobs \in [Jobs -> Rows]
  BY InCheckLeased DEF QueueInv, CheckHoldsUntilCommit, Checked, InCheck, TypeInv, TypeOK
<1>2. Sound(jobs') /\ Sound(txn') /\ Sound(backup')
  BY <1>1, RowReplaced DEF QueueInv, Tables, Commit
<1>3. BackupKept'
  BY <1>1 DEF QueueInv, Tables, BackupKept, Commit, Active
<1> QED
  BY <1>2, <1>3, FreeStep DEF Commit

LEMMA HeartbeatSafe ==
    ASSUME QueueInv, TypeInv', NEW w \in Workers, Heartbeat(w)
    PROVE  QueueInv'
<1>0. /\ jobs \in [Jobs -> Rows] /\ Sound(jobs) /\ Sound(txn) /\ Sound(backup) /\ BackupKept
      /\ pc \in [Workers -> {"idle", "select", "commit", "leased", "start", "starting", "running",
                 "authorised", "completing", "failing", "closing", "release", "join"}]
      /\ beat \in [Workers -> {"off", "on", "checked", "renewed", "lost"}]
      /\ lease \in [Workers -> Leases \cup {NoLease}]
      /\ fence \in [Repos -> FenceRows]
  BY DEF QueueInv, TypeInv, TypeOK, Tables, FenceTypeOK
<1>1. CASE HeartbeatCheck(w)
  <2>1. ~Selecting /\ \A v \in Workers : ~InCheck(v)
    BY <1>1, FreeLock DEF QueueInv, HeartbeatCheck
  <2>2. UNCHANGED <<jobs, txn, backup, lease, fence>>
    BY <1>1 DEF HeartbeatCheck, fenceVars
  <2>3. \A v \in Workers :
          /\ pc'[v] = pc[v] \/ pc'[v] = "failing"
          /\ beat'[v] \in Beating => beat[v] \in Beating \/ (v = w /\ LeasedRow(w, Active))
    BY <1>0, <1>1 DEF HeartbeatCheck, BeatFails, Beating
  <2>4. ~Selecting'
    BY <2>1, <2>3 DEF Selecting
  <2>5. ASSUME NEW v \in Workers, InCheck(v)'
        PROVE  Checked(v)'
    <3>1. v = w /\ LeasedRow(w, Active) /\ pc'[w] \notin {"starting", "completing"}
      BY <2>1, <2>3, <2>5 DEF InCheck
    <3> QED
      BY <2>2, <3>1, LeasedRowChecks DEF QueueInv, Checked
  <2> QED
    BY <2>2, <2>4, <2>5, QuietStep
<1>2. CASE HeartbeatRenew(w)
  <2>1. InCheck(w) /\ lease[w] \in Leases
    BY <1>2, InCheckLeased DEF QueueInv, HeartbeatRenew, InCheck, Beating
  <2>2. \A r \in Repos : fence'[r].epoch = fence[r].epoch
    BY <1>0, <1>2 DEF HeartbeatRenew, Renew, FenceRows
  <2>3. \A v \in Workers : lease'[v].job = lease[v].job /\ lease'[v].token = lease[v].token
    BY <1>0, <1>2, <2>1 DEF HeartbeatRenew, Leases
  <2>4. \A v \in Workers : InCheck(v)' => InCheck(v)
    BY <1>0, <1>2 DEF HeartbeatRenew, InCheck, Beating
  <2>5. UNCHANGED <<jobs, txn, backup, pc>>
    BY <1>2 DEF HeartbeatRenew
  <2> QED
    BY <2>2, <2>3, <2>4, <2>5, QuietStep DEF Selecting
<1>3. CASE HeartbeatDenied(w)
  BY <1>0, <1>3, FreeStep DEF HeartbeatDenied, BackupKept
<1>4. CASE HeartbeatCommit(w)
  <2>1. InCheck(w) /\ lease[w].job \in Jobs
    BY <1>4, InCheckLeased DEF QueueInv, HeartbeatCommit, InCheck, Beating
  <2> DEFINE row == [jobs[lease[w].job] EXCEPT !.expires = lease[w].expires]
  <2>2. jobs' = [jobs EXCEPT ![lease[w].job] = row]
    BY <1>4 DEF HeartbeatCommit
  <2>3. RowSound(row) /\ row.state = jobs[lease[w].job].state
    BY <1>0, <2>1 DEF Sound, RowSound, Rows
  <2> HIDE DEF row
  <2>4. Sound(jobs')
    BY <1>0, <2>1, <2>2, <2>3, RowReplaced
  <2>5. BackupKept'
    BY <1>0, <1>4, <2>2, <2>3 DEF BackupKept, HeartbeatCommit
  <2> QED
    BY <1>0, <1>4, <2>4, <2>5, FreeStep DEF HeartbeatCommit
<1> QED
  BY <1>1, <1>2, <1>3, <1>4 DEF Heartbeat

LEMMA RunSafe ==
    ASSUME QueueInv, TypeInv', NEW w \in Workers, Run(w)
    PROVE  QueueInv'
<1>0. /\ jobs \in [Jobs -> Rows]
      /\ pc \in [Workers -> {"idle", "select", "commit", "leased", "start", "starting", "running",
                 "authorised", "completing", "failing", "closing", "release", "join"}]
      /\ beat \in [Workers -> {"off", "on", "checked", "renewed", "lost"}]
      /\ fence \in [Repos -> FenceRows]
  BY DEF QueueInv, TypeInv, TypeOK, FenceTypeOK
<1>1. CASE StartCheck(w)
  BY <1>1, CheckSafe DEF StartCheck, Active
<1>2. CASE StartCommit(w)
  <2>1. InCheck(w)
    BY <1>2 DEF StartCommit, InCheck
  <2>2. RowSound([jobs[lease[w].job] EXCEPT !.state = "running"])
    BY <1>0, <2>1, InCheckLeased DEF QueueInv, Tables, Sound, RowSound, Rows
  <2> QED
    BY <1>2, <2>1, <2>2, CommitSafe DEF StartCommit
<1>3. CASE Guard(w)
  BY <1>0, <1>3, QuietStep DEF Guard, fenceVars, Selecting, InCheck
<1>4. CASE Stage(w)
  BY <1>0, <1>4, QuietStep DEF Stage, fenceVars, Selecting, InCheck
<1>5. CASE CompleteCheck(w)
  BY <1>5, CheckSafe DEF CompleteCheck, Active
<1>6. CASE CompleteCommit(w)
  <2>1. InCheck(w)
    BY <1>6 DEF CompleteCommit, InCheck
  <2>2. RowSound([jobs[lease[w].job] EXCEPT !.state = "succeeded", !.token = 0, !.expires = 0])
    BY <1>0, <2>1, InCheckLeased DEF QueueInv, Tables, Sound, RowSound, Rows
  <2> QED
    BY <1>6, <2>1, <2>2, CommitSafe DEF CompleteCommit
<1>7. CASE FailCheck(w)
  BY <1>7, CheckSafe DEF FailCheck
<1>8. CASE FailCommit(w)
  <2>1. InCheck(w)
    BY <1>8 DEF FailCommit, InCheck
  <2> DEFINE row == jobs[lease[w].job]
  <2>2. row \in Rows /\ RowSound(row)
    BY <1>0, <2>1, InCheckLeased DEF QueueInv, Tables, Sound
  <2>3. PICK retryable \in Retryable :
          Commit(w, EndLease(row, retryable /\ row.attempts < row.max_attempts), "release")
    BY <1>8 DEF FailCommit
  <2> HIDE DEF row
  <2>4. RowSound(EndLease(row, retryable /\ row.attempts < row.max_attempts))
    BY <2>2 DEF RowSound, EndLease, Rows
  <2> QED
    BY <2>1, <2>3, <2>4, CommitSafe
<1>9. CASE ReleaseFence(w)
  <2>1. \A r \in Repos : fence'[r].epoch = fence[r].epoch
    BY <1>0, <1>9 DEF ReleaseFence, Release, fenceVars, FenceRows
  <2>2. UNCHANGED <<jobs, txn, backup, lease, beat>> /\ pc' = [pc EXCEPT ![w] = "join"]
    BY <1>9 DEF ReleaseFence
  <2> QED
    BY <1>0, <2>1, <2>2, QuietStep DEF Selecting, InCheck
<1>10. CASE Join(w)
  <2>1. \A v \in Workers : v # w => UNCHANGED <<pc[v], beat[v], lease[v]>>
    BY <1>10 DEF Join, Reset
  <2>2. pc'[w] = "idle" /\ beat'[w] = "off"
    BY <1>0, <1>10 DEF Join, Reset
  <2>3. UNCHANGED <<fence, jobs, txn, backup>>
    BY <1>10 DEF Join, fenceVars
  <2> QED
    BY <2>1, <2>2, <2>3, QuietStep DEF Selecting, InCheck, Beating
<1> QED
  BY <1>1, <1>2, <1>3, <1>4, <1>5, <1>6, <1>7, <1>8, <1>9, <1>10 DEF Run

LEMMA FaultSafe ==
    ASSUME QueueInv, TypeInv', NEW w \in Workers, Fault(w)
    PROVE  QueueInv'
<1>0. /\ Sound(jobs) /\ Sound(txn) /\ Sound(backup) /\ BackupKept
      /\ pc \in [Workers -> {"idle", "select", "commit", "leased", "start", "starting", "running",
                 "authorised", "completing", "failing", "closing", "release", "join"}]
      /\ beat \in [Workers -> {"off", "on", "checked", "renewed", "lost"}]
  BY DEF QueueInv, TypeInv, TypeOK, Tables
<1>1. CASE ClaimAbort(w)
  BY <1>0, <1>1, BlankSound, FreeStep DEF ClaimAbort, Blank, BackupKept
<1>2. CASE HeartbeatError(w)
  BY <1>0, <1>2, FreeStep DEF HeartbeatError, BackupKept
<1>3. CASE PipelineFails(w)
  BY <1>0, <1>3, QuietStep DEF PipelineFails, fenceVars, Selecting, InCheck
<1>4. CASE CommitError(w)
  BY <1>0, <1>4, FreeStep DEF CommitError, BackupKept
<1>5. CASE Crash(w)
  <2>1. UNCHANGED <<fence, jobs, backup>>
    BY <1>5 DEF Crash, fenceVars
  <2>2. CASE lock' = Unlocked /\ txn' = Blank
    BY <1>0, <2>1, <2>2, BlankSound, FreeStep DEF BackupKept, Blank
  <2>3. CASE UNCHANGED <<lock, txn>>
    <3>1. \A v \in Workers : v # w => UNCHANGED <<pc[v], beat[v], lease[v]>>
      BY <1>5 DEF Crash, Reset
    <3>2. pc'[w] = "idle" /\ beat'[w] = "off"
      BY <1>0, <1>5 DEF Crash, Reset
    <3> QED
      BY <2>1, <2>3, <3>1, <3>2, QuietStep DEF Selecting, InCheck, Beating
  <2> QED
    BY <1>5, <2>2, <2>3 DEF Crash
<1> QED
  BY <1>1, <1>2, <1>3, <1>4, <1>5 DEF Fault

LEMMA InitSafe == Init => QueueInv
<1> SUFFICES ASSUME Init
             PROVE  QueueInv
  OBVIOUS
<1>1. TypeInv /\ Sound(jobs) /\ Sound(txn) /\ Sound(backup) /\ BackupKept
  BY InitType, BlankSound DEF Init, BackupKept
<1>2. CheckHoldsUntilCommit /\ Kept
  BY DEF Init, CheckHoldsUntilCommit, Beating, Kept, Selecting
<1> QED
  BY <1>1, <1>2 DEF QueueInv, Tables

LEMMA NextSafe ==
    ASSUME QueueInv, [Next]_vars
    PROVE  QueueInv'
<1>1. TypeInv'
  BY NextType DEF QueueInv
<1>2. CASE UNCHANGED vars
  BY <1>1, <1>2, QuietStep DEF vars, queueVars, fenceVars, Selecting, InCheck
<1>3. CASE Next
  <2>1. \/ \E w \in Workers : Claim(w) \/ Heartbeat(w) \/ Run(w) \/ Fault(w)
        \/ \E j \in Jobs : PrepareAdmission(j) \/ Enqueue(j) \/ CancelJob(j)
        \/ \E x \in Workspaces, p \in Policies : SetPolicy(x, p)
        \/ \E r \in Repos : OperatorConfirm(r) \/ OperatorExpire(r)
        \/ TakeBackup \/ RestoreQueue \/ Pass
    BY <1>3 DEF Next
  <2> QED
    BY <1>1, <2>1, ClaimSafe, HeartbeatSafe, RunSafe, FaultSafe, OtherSafe
<1> QED
  BY <1>2, <1>3

LEMMA AlwaysSafe == Spec => []QueueInv
<1>1. QueueInv /\ [Next]_vars => QueueInv'
  BY NextSafe
<1> QED
  BY <1>1, InitSafe, PTL DEF Spec

(***************************************************************************)
(* What one step may do to a job's row.                                    *)
(***************************************************************************)
Honest(j) ==
    /\ jobs[j].state \in Terminal => jobs'[j] = jobs[j]
    /\ jobs[j].state = "running" /\ jobs'[j].state = "succeeded"
          => fence[RepoOf[j]].epoch = jobs[j].epoch

LEMMA SameRows ==
    ASSUME jobs' = jobs
    PROVE  \A j \in Jobs : Honest(j)
BY DEF Honest

\* A commit writes the row that was checked, which has not ended.
LEMMA CommitHonest ==
    ASSUME QueueInv, NEW w \in Workers, NEW row, InCheck(w),
           jobs' = [jobs EXCEPT ![lease[w].job] = row]
    PROVE  \A j \in Jobs : Honest(j)
<1>1. /\ lease[w].job \in Jobs /\ jobs[lease[w].job].state \in Active
      /\ jobs[lease[w].job].epoch = fence[RepoOf[lease[w].job]].epoch
  BY InCheckLeased DEF QueueInv, CheckHoldsUntilCommit, Checked, InCheck
<1>2. \A j \in Jobs : j # lease[w].job => jobs'[j] = jobs[j]
  BY DEF QueueInv, TypeInv, TypeOK
<1> QED
  BY <1>1, <1>2 DEF Honest, Active, Terminal

LEMMA StepsAreHonest ==
    ASSUME QueueInv, [Next]_vars, ~RestoreQueue
    PROVE  \A j \in Jobs : Honest(j)
<1>0. jobs \in [Jobs -> Rows]
  BY DEF QueueInv, TypeInv, TypeOK
<1>1. ASSUME NEW j \in Jobs, PrepareAdmission(j) \/ Enqueue(j) \/ CancelJob(j)
      PROVE  \A i \in Jobs : Honest(i)
  BY <1>0, <1>1 DEF PrepareAdmission, Enqueue, CancelJob, Honest, AbsentRow, Terminal
<1>2. ASSUME NEW x \in Workspaces, NEW p \in Policies, SetPolicy(x, p)
      PROVE  \A j \in Jobs : Honest(j)
  BY <1>2, SameRows DEF SetPolicy
<1>3. ASSUME NEW w \in Workers, Claim(w)
      PROVE  \A j \in Jobs : Honest(j)
  <2>1. CASE ClaimCommit(w)
    <3>1. Selecting /\ jobs' = txn
      BY <2>1 DEF ClaimCommit, Selecting
    <3> QED
      BY <3>1 DEF QueueInv, Tables, Kept, Honest
  <2>2. CASE jobs' = jobs
    BY <2>2, SameRows
  <2> QED
    BY <1>3, <2>1, <2>2 DEF Claim, ClaimBegin, ClaimSelect, ClaimNothing
<1>4. ASSUME NEW w \in Workers, Heartbeat(w)
      PROVE  \A j \in Jobs : Honest(j)
  <2>1. CASE HeartbeatCommit(w)
    BY <2>1, CommitHonest DEF HeartbeatCommit, InCheck, Beating
  <2>2. CASE jobs' = jobs
    BY <2>2, SameRows
  <2> QED
    BY <1>4, <2>1, <2>2 DEF Heartbeat, HeartbeatCheck, HeartbeatRenew, HeartbeatDenied
<1>5. ASSUME NEW w \in Workers, Run(w)
      PROVE  \A j \in Jobs : Honest(j)
  <2>1. CASE StartCommit(w) \/ CompleteCommit(w) \/ FailCommit(w)
    BY <2>1, CommitHonest DEF StartCommit, CompleteCommit, FailCommit, Commit, InCheck
  <2>2. CASE jobs' = jobs
    BY <2>2, SameRows
  <2> QED
    BY <1>5, <2>1, <2>2 DEF Run, StartCheck, CompleteCheck, FailCheck, Check, Guard, Stage,
       ReleaseFence, Join
<1>6. ASSUME NEW w \in Workers, Fault(w)
      PROVE  \A j \in Jobs : Honest(j)
  BY <1>6, SameRows DEF Fault, ClaimAbort, HeartbeatError, PipelineFails, CommitError, Crash
<1>7. ASSUME NEW r \in Repos, OperatorConfirm(r) \/ OperatorExpire(r)
      PROVE  \A j \in Jobs : Honest(j)
  BY <1>7, SameRows DEF OperatorConfirm, OperatorExpire
<1>8. CASE TakeBackup \/ Pass \/ UNCHANGED vars
  BY <1>8, SameRows DEF TakeBackup, Pass, vars, queueVars
<1> QED
  BY <1>1, <1>2, <1>3, <1>4, <1>5, <1>6, <1>7, <1>8 DEF Next

-----------------------------------------------------------------------------
\* What a transaction has checked holds until it commits, although the fence
\* store changes underneath it (_leased_row and its four callers).
THEOREM ChecksHold == Spec => []CheckHoldsUntilCommit
<1>1. QueueInv => CheckHoldsUntilCommit
  BY DEF QueueInv
<1> QED
  BY <1>1, AlwaysSafe, PTL

\* No repository ever has two leased or running jobs, committed or about to be
\* (claim_next).
THEOREM OneActivePerRepository == Spec => []OneActivePerRepo
<1>1. QueueInv => OneActivePerRepo
  BY DEF QueueInv, Tables, Sound, OneActive, OneActivePerRepo
<1> QED
  BY <1>1, AlwaysSafe, PTL

\* Crashes, expiries and retries never start a job more often than its policy
\* allowed (claim_next, _recover_expired_leases, fail_job).
THEOREM AttemptsStayBounded == Spec => []AttemptsBounded
<1>1. QueueInv => AttemptsBounded
  BY DEF QueueInv, Tables, Sound, RowSound, AttemptsBounded
<1> QED
  BY <1>1, AlwaysSafe, PTL

\* Success is reported under the newest epoch of the repository only, whatever
\* happens to the fence after complete_job has checked it.
THEOREM SuccessIsNewest == Spec => SuccessUnderNewestEpoch
<1>1. ASSUME QueueInv, [Next]_vars
      PROVE  \A j \in Jobs : jobs[j].state = "running" /\ jobs'[j].state = "succeeded"
                 => fence[RepoOf[j]].epoch = jobs[j].epoch
  <2>1. CASE RestoreQueue
    <3>1. \A j \in Jobs : jobs'[j].state = "succeeded" => jobs[j].state = "succeeded"
      BY <1>1, <2>1 DEF RestoreQueue, QueueInv, Tables, BackupKept
    <3> QED
      BY <3>1
  <2>2. CASE ~RestoreQueue
    BY <1>1, <2>2, StepsAreHonest DEF Honest
  <2> QED
    BY <2>1, <2>2
<1> QED
  BY <1>1, AlwaysSafe, PTL DEF Spec, SuccessUnderNewestEpoch

\* A job that has ended never changes again, unless the database is restored
\* (every UPDATE of development_jobs).
THEOREM TerminalStaysTerminal == Spec => TerminalIsFinal
<1>1. ASSUME QueueInv, [Next]_vars
      PROVE  RestoreQueue \/ \A j \in Jobs : jobs[j].state \in Terminal => jobs'[j] = jobs[j]
  BY <1>1, StepsAreHonest DEF Honest
<1> QED
  BY <1>1, AlwaysSafe, PTL DEF Spec, TerminalIsFinal

-----------------------------------------------------------------------------
\* Every step of the queue uses the fence store as one of its operations.
LEMMA FenceSteps ==
    ASSUME QueueInv, [Next]_vars
    PROVE  Grants \/ Upkeep
<1>1. ASSUME NEW w \in Workers, ClaimSelect(w)
      PROVE  Grants
  <2>1. PICK t \in Samples, j \in Jobs : Acquire(RepoOf[j], j, ClaimLease, t)
    BY <1>1, ClaimSelectTakes DEF Taken
  <2> QED
    BY <2>1, QueueAssumption DEF Grants
<1>2. ASSUME NEW w \in Workers, HeartbeatRenew(w) \/ ReleaseFence(w)
      PROVE  Upkeep
  <2>1. lease[w].job \in Jobs /\ RepoOf[lease[w].job] \in Repos
    <3>1. pc[w] \in Claimed
      BY <1>2 DEF HeartbeatRenew, ReleaseFence, QueueInv, TypeInv, LockDiscipline, Disciplined,
         Claimed, Beating
    <3> QED
      BY <3>1, LeaseOf, QueueAssumption DEF QueueInv
  <2> QED
    BY <1>2, <2>1, QueueAssumption DEF HeartbeatRenew, ReleaseFence, Upkeep
<1>3. ASSUME NEW r \in Repos, OperatorConfirm(r) \/ OperatorExpire(r)
      PROVE  Upkeep
  BY <1>3 DEF OperatorConfirm, OperatorExpire, Upkeep
<1>4. CASE Pass
  BY <1>4 DEF Pass, Upkeep
<1>5. CASE UNCHANGED fenceVars
  BY <1>5 DEF Upkeep
<1>6. ASSUME NEW w \in Workers, Claim(w) \/ Heartbeat(w)
      PROVE  Grants \/ Upkeep
  BY <1>1, <1>2, <1>5, <1>6 DEF Claim, ClaimBegin, ClaimNothing, ClaimCommit, Heartbeat,
     HeartbeatCheck, HeartbeatDenied, HeartbeatCommit
<1>7. ASSUME NEW w \in Workers, Run(w)
      PROVE  Grants \/ Upkeep
  BY <1>2, <1>5, <1>7 DEF Run, StartCheck, StartCommit, Guard, Stage, CompleteCheck,
     CompleteCommit, FailCheck, FailCommit, Join, Check, Commit
<1>8. ASSUME NEW w \in Workers, Fault(w)
      PROVE  Grants \/ Upkeep
  BY <1>5, <1>8 DEF Fault, ClaimAbort, HeartbeatError, PipelineFails, CommitError, Crash
<1>9. CASE UNCHANGED vars
  BY <1>5, <1>9 DEF vars
<1>10. CASE \/ \E j \in Jobs : PrepareAdmission(j) \/ Enqueue(j) \/ CancelJob(j)
            \/ \E x \in Workspaces, p \in Policies : SetPolicy(x, p)
            \/ TakeBackup \/ RestoreQueue
  BY <1>5, <1>10 DEF PrepareAdmission, Enqueue, CancelJob, SetPolicy, TakeBackup, RestoreQueue
<1> QED
  BY <1>3, <1>4, <1>6, <1>7, <1>8, <1>9, <1>10 DEF Next

\* The queue, its dispatchers, operators, crashes and restores together still
\* use the fence store as the fenced lock it promises to be.
THEOREM QueueUsesFencedLock == Spec => ImplementsFencedLock
<1>1. Init => Lock!LockInit
  BY AbstractInit DEF Init
<1>2. QueueInv /\ [Next]_vars => [Lock!LockNext]_(Lock!lockVars)
  BY FenceSteps, AbstractStep DEF QueueInv, TypeInv, TypeOK
<1> QED
  BY <1>1, <1>2, AlwaysSafe, PTL DEF Spec, ImplementsFencedLock, Lock!LockSpec

-----------------------------------------------------------------------------
(***************************************************************************)
(* Leases.  No copy of a row, in whichever table, carries an epoch the     *)
(* fence store has not issued (Epochs).  A claim ends a lease only when    *)
(* the row's fence is gone, and a fence that is gone does not come back    *)
(* while the claim lasts (Recovery).  The claim that has taken a job still *)
(* respects max_running when it commits (Room).                            *)
(***************************************************************************)
Issued(table) == \A j \in Jobs : table[j].epoch <= fence[RepoOf[j]].epoch

Epochs == Issued(jobs) /\ Issued(txn) /\ Issued(backup)

KeptOrLost(j) ==
    jobs[j].state \in Active =>
        \/ txn[j].state \in Active /\ txn[j].epoch = jobs[j].epoch
        \/ ~FenceHolds(j)

Recovery == Selecting => \A j \in Jobs : KeptOrLost(j)

RoomFor(j) ==
    Cardinality(ActiveIn(txn, WorkspaceOf[RepoOf[j]])) <= policy[WorkspaceOf[RepoOf[j]]].max_running

Room == \A w \in Workers : pc[w] = "commit" /\ lease[w] # NoLease => RoomFor(lease[w].job)

LeaseInv == QueueInv /\ Epochs /\ Recovery /\ Room

(***************************************************************************)
(* Every step that is neither part of a claim nor a restore is ordinary:   *)
(* it grants no fence; it writes rows only as their lease allows; and it   *)
(* leaves a claim in progress alone, or finds or leaves the lock free.     *)
(***************************************************************************)
Renewed(j) ==
    /\ jobs[j].state \in Active /\ jobs'[j].epoch = jobs[j].epoch
    /\ jobs'[j].expires = jobs[j].expires \/ jobs[j].epoch = fence[RepoOf[j]].epoch

RowKept(j) ==
    /\ jobs'[j].epoch \in {0, jobs[j].epoch}
    /\ jobs'[j].state \in Active => Renewed(j)
    /\ jobs[j].state \in Active /\ jobs'[j].epoch # jobs[j].epoch
          => \E w \in Workers : pc[w] = "closing" /\ lease[w] # NoLease /\ lease[w].job = j

ClaimsKept ==
    /\ UNCHANGED <<jobs, txn, policy>>
    /\ \A w \in Workers : pc'[w] \in {"select", "commit"} => UNCHANGED <<pc[w], lease[w]>>

Ordinary ==
    /\ Upkeep /\ now' >= now
    /\ \A j \in Jobs : RowKept(j)
    /\ txn' = txn \/ txn' = Blank
    /\ backup' = backup \/ backup' = jobs
    /\ lock' = Unlocked \/ ClaimsKept

LEMMA KeptRow ==
    ASSUME jobs' = jobs
    PROVE  \A j \in Jobs : RowKept(j)
BY DEF RowKept, Renewed

LEMMA UpkeepTime ==
    ASSUME FenceTypeOK, Upkeep
    PROVE  now' >= now
BY DEF Upkeep, FenceTypeOK, Renew, Release, ForceExpire, Tick, fenceVars

\* A step that leaves the rows and every claim alone.
LEMMA BystanderStep ==
    ASSUME QueueInv, Upkeep, UNCHANGED <<jobs, txn, policy, backup>>,
           \A w \in Workers : pc'[w] \in {"select", "commit"} => UNCHANGED <<pc[w], lease[w]>>
    PROVE  Ordinary
BY KeptRow, UpkeepTime DEF Ordinary, ClaimsKept, QueueInv, TypeInv, TypeOK

LEMMA UnlockedStep ==
    ASSUME QueueInv, Upkeep, lock' = Unlocked, \A j \in Jobs : RowKept(j),
           txn' = txn \/ txn' = Blank, backup' = backup \/ backup' = jobs
    PROVE  Ordinary
BY UpkeepTime DEF Ordinary, QueueInv, TypeInv, TypeOK

\* A commit writes the one row that was checked.
LEMMA CommitKeeps ==
    ASSUME QueueInv, NEW w \in Workers, NEW row, InCheck(w),
           jobs' = [jobs EXCEPT ![lease[w].job] = row],
           \/ row.epoch = jobs[lease[w].job].epoch
           \/ row.epoch = 0 /\ row.state \notin Active /\ pc[w] = "closing"
    PROVE  \A j \in Jobs : RowKept(j)
<1>1. /\ lease[w] # NoLease /\ lease[w].job \in Jobs /\ jobs[lease[w].job].state \in Active
      /\ jobs[lease[w].job].epoch = fence[RepoOf[lease[w].job]].epoch
  BY InCheckLeased, QueueAssumption DEF QueueInv, CheckHoldsUntilCommit, Checked, InCheck
<1>2. \A j \in Jobs : jobs'[j] = IF j = lease[w].job THEN row ELSE jobs[j]
  BY DEF QueueInv, TypeInv, TypeOK
<1> QED
  BY <1>1, <1>2 DEF RowKept, Renewed

LEMMA OtherOrdinary ==
    ASSUME QueueInv,
           \/ \E j \in Jobs : PrepareAdmission(j) \/ Enqueue(j) \/ CancelJob(j)
           \/ \E x \in Workspaces, p \in Policies : SetPolicy(x, p)
           \/ \E r \in Repos : OperatorConfirm(r) \/ OperatorExpire(r)
           \/ TakeBackup \/ Pass
    PROVE  Ordinary
<1>0. jobs \in [Jobs -> Rows]
  BY DEF QueueInv, TypeInv, TypeOK
<1>1. ASSUME NEW j \in Jobs, PrepareAdmission(j)
      PROVE  Ordinary
  BY <1>1, BystanderStep DEF PrepareAdmission, Upkeep
<1>2. ASSUME NEW j \in Jobs, Enqueue(j) \/ CancelJob(j)
      PROVE  Ordinary
  <2>0. \A i \in Jobs : \/ jobs'[i] = jobs[i]
                       \/ /\ jobs[i].state \in {"absent", "queued"}
                          /\ jobs'[i].state \in {"queued", "cancelled"}
                          /\ jobs'[i].epoch \in {0, jobs[i].epoch}
    <3>1. CASE Enqueue(j)
      BY <1>0, <3>1 DEF Enqueue, AbsentRow
    <3>2. CASE CancelJob(j)
      <4>1. jobs[j] \in Rows /\ jobs[j].state = "queued" /\ jobs' = [jobs EXCEPT ![j].state = "cancelled"]
        BY <1>0, <3>2 DEF CancelJob
      <4> QED
        BY <1>0, <4>1 DEF Rows
    <3> QED
      BY <1>2, <3>1, <3>2
  <2>1. \A i \in Jobs : RowKept(i)
    BY <2>0 DEF RowKept, Renewed, Active
  <2>2. Upkeep /\ lock' = Unlocked /\ UNCHANGED <<txn, backup>>
    BY <1>2 DEF Enqueue, CancelJob, Upkeep
  <2> QED
    BY <2>1, <2>2, UnlockedStep
<1>3. ASSUME NEW x \in Workspaces, NEW p \in Policies, SetPolicy(x, p)
      PROVE  Ordinary
  BY <1>3, KeptRow, UnlockedStep DEF SetPolicy, Upkeep
<1>4. ASSUME NEW r \in Repos, OperatorConfirm(r) \/ OperatorExpire(r)
      PROVE  Ordinary
  <2>1. Upkeep /\ UNCHANGED <<jobs, txn, policy, backup, pc, lease>>
    BY <1>4 DEF OperatorConfirm, OperatorExpire, Upkeep
  <2> QED
    BY <2>1, BystanderStep
<1>5. CASE TakeBackup
  BY <1>5, KeptRow, UnlockedStep DEF TakeBackup, Upkeep
<1>6. CASE Pass
  BY <1>6, BystanderStep DEF Pass, queueVars, Upkeep
<1> QED
  BY <1>1, <1>2, <1>3, <1>4, <1>5, <1>6

LEMMA HeartbeatOrdinary ==
    ASSUME QueueInv, NEW w \in Workers, Heartbeat(w)
    PROVE  Ordinary
<1>0. /\ jobs \in [Jobs -> Rows] /\ lease \in [Workers -> Leases \cup {NoLease}]
      /\ pc \in [Workers -> {"idle", "select", "commit", "leased", "start", "starting", "running",
                 "authorised", "completing", "failing", "closing", "release", "join"}]
  BY DEF QueueInv, TypeInv, TypeOK
<1>1. CASE HeartbeatCheck(w)
  <2>1. UNCHANGED <<jobs, txn, policy, backup, lease>> /\ Upkeep
    BY <1>1 DEF HeartbeatCheck, Upkeep
  <2>2. \A v \in Workers : pc'[v] = pc[v] \/ pc'[v] = "failing"
    BY <1>0, <1>1 DEF HeartbeatCheck, BeatFails
  <2> QED
    BY <2>1, <2>2, BystanderStep
<1>2. CASE HeartbeatRenew(w)
  <2>1. InCheck(w) /\ pc[w] \in Claimed
    BY <1>2, InCheckLeased DEF QueueInv, HeartbeatRenew, InCheck, Beating
  <2>2. lease[w].job \in Jobs /\ RepoOf[lease[w].job] \in Repos
    BY <2>1, InCheckLeased, QueueAssumption DEF QueueInv
  <2>3. Upkeep
    BY <1>2, <2>2, QueueAssumption DEF HeartbeatRenew, Upkeep
  <2>4. \A v \in Workers : v # w => lease'[v] = lease[v]
    BY <1>0, <1>2 DEF HeartbeatRenew
  <2>5. UNCHANGED <<jobs, txn, policy, backup, pc>>
    BY <1>2 DEF HeartbeatRenew
  <2>6. pc[w] \notin {"select", "commit"}
    BY <2>1 DEF Claimed
  <2> QED
    BY <2>3, <2>4, <2>5, <2>6, BystanderStep
<1>3. CASE HeartbeatDenied(w)
  BY <1>3, KeptRow, UnlockedStep DEF HeartbeatDenied, Upkeep
<1>4. CASE HeartbeatCommit(w)
  <2>1. InCheck(w) /\ lease[w].job \in Jobs
    BY <1>4, InCheckLeased DEF QueueInv, HeartbeatCommit, InCheck, Beating
  <2> DEFINE row == [jobs[lease[w].job] EXCEPT !.expires = lease[w].expires]
  <2>2. jobs' = [jobs EXCEPT ![lease[w].job] = row] /\ row.epoch = jobs[lease[w].job].epoch
    BY <1>0, <1>4, <2>1 DEF HeartbeatCommit, Rows
  <2> HIDE DEF row
  <2>3. \A j \in Jobs : RowKept(j)
    BY <2>1, <2>2, CommitKeeps
  <2> QED
    BY <1>4, <2>3, UnlockedStep DEF HeartbeatCommit, Upkeep
<1> QED
  BY <1>1, <1>2, <1>3, <1>4 DEF Heartbeat

LEMMA RunOrdinary ==
    ASSUME QueueInv, NEW w \in Workers, Run(w)
    PROVE  Ordinary
<1>0. /\ jobs \in [Jobs -> Rows] /\ lease \in [Workers -> Leases \cup {NoLease}]
      /\ pc \in [Workers -> {"idle", "select", "commit", "leased", "start", "starting", "running",
                 "authorised", "completing", "failing", "closing", "release", "join"}]
  BY DEF QueueInv, TypeInv, TypeOK
<1>1. CASE StartCheck(w) \/ CompleteCheck(w) \/ FailCheck(w) \/ Guard(w) \/ Stage(w)
  <2>1. UNCHANGED <<jobs, txn, policy, backup, lease>> /\ Upkeep
    BY <1>1 DEF StartCheck, CompleteCheck, FailCheck, Check, Guard, Stage, Upkeep
  <2>2. \A v \in Workers : pc'[v] \in {"select", "commit"} => pc'[v] = pc[v]
    BY <1>0, <1>1 DEF StartCheck, CompleteCheck, FailCheck, Check, Guard, Stage
  <2> QED
    BY <2>1, <2>2, BystanderStep
<1>2. ASSUME NEW row, NEW next, Commit(w, row, next), InCheck(w),
             \/ row.epoch = jobs[lease[w].job].epoch
             \/ row.epoch = 0 /\ row.state \notin Active /\ pc[w] = "closing"
      PROVE  Ordinary
  <2>1. \A j \in Jobs : RowKept(j)
    BY <1>2, CommitKeeps DEF Commit
  <2> QED
    BY <1>2, <2>1, UnlockedStep DEF Commit, Upkeep
<1>3. ASSUME InCheck(w)
      PROVE  jobs[lease[w].job] \in Rows
  BY <1>0, <1>3, InCheckLeased DEF QueueInv
<1>4. CASE StartCommit(w)
  BY <1>2, <1>3, <1>4 DEF StartCommit, InCheck, Rows
<1>5. CASE CompleteCommit(w)
  BY <1>2, <1>3, <1>5 DEF CompleteCommit, InCheck, Rows
<1>6. CASE FailCommit(w)
  <2>1. InCheck(w) /\ pc[w] = "closing" /\ jobs[lease[w].job] \in Rows
    BY <1>3, <1>6 DEF FailCommit, InCheck
  <2> DEFINE row(retry) == EndLease(jobs[lease[w].job], retry)
  <2>2. PICK retry : Commit(w, row(retry), "release")
    BY <1>6 DEF FailCommit
  <2>3. \/ row(retry).epoch = jobs[lease[w].job].epoch
        \/ row(retry).epoch = 0 /\ row(retry).state \notin Active
    BY <2>1 DEF EndLease, Rows, Active
  <2> HIDE DEF row
  <2> QED
    BY <1>2, <2>1, <2>2, <2>3
<1>7. CASE ReleaseFence(w)
  <2>1. lease[w].job \in Jobs /\ RepoOf[lease[w].job] \in Repos
    BY <1>7, LeaseOf, QueueAssumption DEF ReleaseFence, Claimed, QueueInv
  <2>2. Upkeep
    BY <1>7, <2>1 DEF ReleaseFence, Upkeep
  <2>3. \A v \in Workers : pc'[v] = pc[v] \/ pc'[v] = "join"
    BY <1>0, <1>7 DEF ReleaseFence
  <2>4. UNCHANGED <<jobs, txn, policy, backup, lease>>
    BY <1>7 DEF ReleaseFence
  <2> QED
    BY <2>2, <2>3, <2>4, BystanderStep
<1>8. CASE Join(w)
  <2>1. \A v \in Workers : v # w => UNCHANGED <<pc[v], lease[v]>>
    BY <1>8 DEF Join, Reset
  <2>2. pc'[w] = "idle"
    BY <1>0, <1>8 DEF Join, Reset
  <2> QED
    BY <1>8, <2>1, <2>2, BystanderStep DEF Join, Upkeep
<1> QED
  BY <1>1, <1>4, <1>5, <1>6, <1>7, <1>8 DEF Run

LEMMA FaultOrdinary ==
    ASSUME QueueInv, NEW w \in Workers, Fault(w)
    PROVE  Ordinary
<1>0. pc \in [Workers -> {"idle", "select", "commit", "leased", "start", "starting", "running",
               "authorised", "completing", "failing", "closing", "release", "join"}]
  BY DEF QueueInv, TypeInv, TypeOK
<1>1. CASE ClaimAbort(w) \/ HeartbeatError(w) \/ CommitError(w)
  BY <1>1, KeptRow, UnlockedStep DEF ClaimAbort, HeartbeatError, CommitError, Upkeep
<1>2. CASE PipelineFails(w)
  BY <1>0, <1>2, BystanderStep DEF PipelineFails, Upkeep
<1>3. CASE Crash(w)
  <2>1. CASE lock' = Unlocked /\ txn' = Blank
    BY <1>3, <2>1, KeptRow, UnlockedStep DEF Crash, Upkeep
  <2>2. CASE UNCHANGED <<lock, txn>>
    <3>1. \A v \in Workers : v # w => UNCHANGED <<pc[v], lease[v]>>
      BY <1>3 DEF Crash, Reset
    <3>2. pc'[w] = "idle"
      BY <1>0, <1>3 DEF Crash, Reset
    <3> QED
      BY <1>3, <2>2, <3>1, <3>2, BystanderStep DEF Crash, Upkeep
  <2> QED
    BY <1>3, <2>1, <2>2 DEF Crash
<1> QED
  BY <1>1, <1>2, <1>3 DEF Fault

LEMMA StepKinds ==
    ASSUME QueueInv, [Next]_vars
    PROVE  Ordinary \/ RestoreQueue \/ \E w \in Workers : Claim(w)
<1>1. CASE UNCHANGED vars
  BY <1>1, BystanderStep DEF vars, queueVars, Upkeep
<1>2. CASE Next
  <2>1. \/ \E w \in Workers : Claim(w) \/ Heartbeat(w) \/ Run(w) \/ Fault(w)
        \/ \E j \in Jobs : PrepareAdmission(j) \/ Enqueue(j) \/ CancelJob(j)
        \/ \E x \in Workspaces, p \in Policies : SetPolicy(x, p)
        \/ \E r \in Repos : OperatorConfirm(r) \/ OperatorExpire(r)
        \/ TakeBackup \/ RestoreQueue \/ Pass
    BY <1>2 DEF Next
  <2> QED
    BY <2>1, HeartbeatOrdinary, RunOrdinary, FaultOrdinary, OtherOrdinary
<1> QED
  BY <1>1, <1>2

(***************************************************************************)
(* Ordinary steps.                                                         *)
(***************************************************************************)
LEMMA NothingSelected ==
    ASSUME TypeInv', lock' = Unlocked
    PROVE  \A v \in Workers : pc'[v] \notin {"select", "commit"}
<1>1. \A v \in Workers : <<v, "main">> # Unlocked
  BY QueueAssumption
<1> QED
  BY <1>1 DEF TypeInv, LockDiscipline, Disciplined, InTransaction

\* A fence that is lost does not come back, and epochs stay.
LEMMA UpkeepFences ==
    ASSUME QueueInv, Upkeep
    PROVE  /\ \A r \in Repos : fence'[r].epoch = fence[r].epoch
           /\ UNCHANGED jobs => \A j \in Jobs : FenceHolds(j)' => FenceHolds(j)
<1>0. FenceTypeOK
  BY DEF QueueInv, TypeInv, TypeOK
<1>1. \A r \in Repos : fence'[r].epoch = fence[r].epoch /\ (Live(r)' => Live(r))
  BY <1>0, UpkeepOnlyLoses
<1>2. ASSUME NEW r \in Repos, Live(r)'
      PROVE  fence'[r].job = fence[r].job
  BY <1>0, <1>2, UpkeepKeepsHolder
<1>3. \A j \in Jobs : RepoOf[j] \in Repos
  BY QueueAssumption
<1> QED
  BY <1>1, <1>2, <1>3 DEF FenceHolds

LEMMA OrdinaryEpochs ==
    ASSUME QueueInv, Epochs, Ordinary
    PROVE  Epochs'
<1>1. \A j \in Jobs : /\ fence'[RepoOf[j]].epoch = fence[RepoOf[j]].epoch
                      /\ fence[RepoOf[j]].epoch \in Nat
  BY UpkeepFences, QueueAssumption DEF Ordinary, QueueInv, TypeInv, TypeOK, FenceTypeOK, FenceRows
<1>2. \A j \in Jobs : jobs'[j].epoch \in {0, jobs[j].epoch}
  BY DEF Ordinary, RowKept
<1>3. \A j \in Jobs : txn'[j].epoch \in {0, txn[j].epoch}
  BY DEF Ordinary, Blank, AbsentRow
<1>4. \A j \in Jobs : backup'[j].epoch \in {jobs[j].epoch, backup[j].epoch}
  BY DEF Ordinary
<1> QED
  BY <1>1, <1>2, <1>3, <1>4 DEF Epochs, Issued

LEMMA OrdinaryLease ==
    ASSUME LeaseInv, QueueInv', Ordinary
    PROVE  LeaseInv'
<1>1. Epochs'
  BY OrdinaryEpochs DEF LeaseInv
<1>2. CASE lock' = Unlocked
  <2>1. \A v \in Workers : pc'[v] \notin {"select", "commit"}
    BY <1>2, NothingSelected DEF QueueInv
  <2> QED
    BY <1>1, <2>1 DEF LeaseInv, Recovery, Selecting, Room
<1>3. CASE ClaimsKept
  <2>1. \A j \in Jobs : FenceHolds(j)' => FenceHolds(j)
    BY <1>3, UpkeepFences DEF LeaseInv, Ordinary, ClaimsKept
  <2>2. Recovery'
    BY <1>3, <2>1 DEF LeaseInv, Recovery, Selecting, KeptOrLost, ClaimsKept
  <2>3. Room'
    BY <1>3 DEF LeaseInv, Room, RoomFor, ActiveIn, ClaimsKept
  <2> QED
    BY <1>1, <2>2, <2>3 DEF LeaseInv
<1> QED
  BY <1>2, <1>3 DEF Ordinary

LEMMA RestoreLease ==
    ASSUME LeaseInv, QueueInv', RestoreQueue
    PROVE  LeaseInv'
<1>1. \A v \in Workers : pc'[v] \notin {"select", "commit"}
  BY NothingSelected DEF LeaseInv, QueueInv, RestoreQueue
<1>2. Epochs'
  BY DEF LeaseInv, Epochs, Issued, RestoreQueue, fenceVars
<1> QED
  BY <1>1, <1>2 DEF LeaseInv, Recovery, Selecting, Room

(***************************************************************************)
(* Claims.                                                                 *)
(***************************************************************************)
\* Recovery keeps a row, extends it while its fence is alive, or ends it
\* because the fence is gone.
LEMMA RecoveredRow ==
    ASSUME QueueInv, NEW t, NEW j \in Jobs
    PROVE  /\ Recovered(t)[j] \in Rows
           /\ Recovered(t)[j].epoch \in {0, jobs[j].epoch}
           /\ Recovered(t)[j].state \in Active =>
                 /\ jobs[j].state \in Active /\ Recovered(t)[j].epoch = jobs[j].epoch
                 /\ Recovered(t)[j] = jobs[j] \/ FenceHolds(j)
           /\ jobs[j].state \in Active =>
                 \/ Recovered(t)[j].state \in Active
                 \/ ~FenceHolds(j) /\ ~(jobs[j].expires > t)
<1>1. jobs[j] \in Rows /\ fence[RepoOf[j]] \in FenceRows
  BY QueueAssumption DEF QueueInv, TypeInv, TypeOK, FenceTypeOK
<1> DEFINE row == Recovered(t)[j]
<1>2. \/ row = jobs[j]
      \/ /\ jobs[j].state \in Active /\ FenceHolds(j)
         /\ row = [jobs[j] EXCEPT !.expires = fence[RepoOf[j]].expires]
      \/ /\ jobs[j].state \in Active /\ ~FenceHolds(j) /\ ~(jobs[j].expires > t)
         /\ row = EndLease(jobs[j], jobs[j].attempts < jobs[j].max_attempts)
  BY DEF Recovered
<1>3. CASE row = jobs[j]
  BY <1>1, <1>3
<1>4. CASE /\ jobs[j].state \in Active /\ FenceHolds(j)
           /\ row = [jobs[j] EXCEPT !.expires = fence[RepoOf[j]].expires]
  <2>1. fence[RepoOf[j]].expires \in Nat
    BY <1>1 DEF FenceRows
  <2>2. row \in Rows /\ row.epoch = jobs[j].epoch /\ row.state = jobs[j].state
    BY <1>1, <1>4, <2>1 DEF Rows
  <2> HIDE DEF row
  <2> QED
    BY <1>4, <2>2 DEF row
<1>5. CASE /\ jobs[j].state \in Active /\ ~FenceHolds(j) /\ ~(jobs[j].expires > t)
           /\ row = EndLease(jobs[j], jobs[j].attempts < jobs[j].max_attempts)
  <2>1. row \in Rows /\ row.epoch \in {0, jobs[j].epoch} /\ row.state \notin Active
    <3>1. row \in Rows
      BY <1>1, <1>5, EndLeaseType
    <3>2. \E retry : row = EndLease(jobs[j], retry)
      BY <1>5
    <3> HIDE DEF row
    <3> QED
      BY <1>1, <3>1, <3>2 DEF EndLease, Rows, Active
  <2> HIDE DEF row
  <2> QED
    BY <1>5, <2>1 DEF row
<1> QED
  BY <1>2, <1>3, <1>4, <1>5

LEMMA InClaim ==
    ASSUME QueueInv', NEW w \in Workers, pc'[w] \in {"select", "commit"}
    PROVE  \A v \in Workers : v # w => pc'[v] \notin {"select", "commit"}
<1>1. lock' = <<w, "main">>
  BY DEF QueueInv, TypeInv, LockDiscipline, Disciplined, InTransaction
<1> QED
  BY <1>1 DEF QueueInv, TypeInv, LockDiscipline, Disciplined, InTransaction

LEMMA BeginLease ==
    ASSUME LeaseInv, QueueInv', NEW w \in Workers, ClaimBegin(w)
    PROVE  LeaseInv'
<1>0. /\ UNCHANGED <<jobs, backup, fence, now, lease, policy>>
      /\ pc' = [pc EXCEPT ![w] = "select"] /\ pc'[w] = "select"
  BY DEF ClaimBegin, LeaseInv, QueueInv, TypeInv, TypeOK, fenceVars
<1>1. PICK t \in Samples : txn' = Recovered(t)
  BY DEF ClaimBegin
<1>2. Epochs'
  <2>1. \A j \in Jobs : txn'[j].epoch \in {0, jobs[j].epoch} /\ fence[RepoOf[j]].epoch \in Nat
    BY <1>1, RecoveredRow, QueueAssumption DEF LeaseInv, QueueInv, TypeInv, TypeOK, FenceTypeOK,
       FenceRows
  <2> QED
    BY <1>0, <2>1 DEF LeaseInv, Epochs, Issued
<1>3. Recovery'
  <2>1. \A j \in Jobs : jobs[j].state \in Active =>
            (txn'[j].state \in Active /\ txn'[j].epoch = jobs[j].epoch) \/ ~FenceHolds(j)
    BY <1>1, RecoveredRow DEF LeaseInv
  <2>2. \A j \in Jobs : FenceHolds(j)' = FenceHolds(j)
    BY <1>0 DEF FenceHolds, Live
  <2> QED
    BY <1>0, <2>1, <2>2 DEF Recovery, KeptOrLost
<1>4. Room'
  BY <1>0, InClaim DEF Room
<1> QED
  BY <1>2, <1>3, <1>4 DEF LeaseInv

\* The scan leaves every row that is not queued alone, and no epoch changes.
LEMMA ScannedEpochs ==
    ASSUME QueueInv, NEW passed \in SUBSET Candidates, NEW k \in Jobs
    PROVE  /\ Scanned(passed)[k].epoch = txn[k].epoch
           /\ Scanned(passed)[k].state \in Active <=> txn[k].state \in Active
           /\ Scanned(passed)[k].state \in Active => Scanned(passed)[k] = txn[k]
<1>1. txn[k] \in Rows
  BY DEF QueueInv, TypeInv, TypeOK
<1>2. k \in passed => txn[k].state = "queued"
  BY DEF Candidates
<1> QED
  BY <1>1, <1>2 DEF Scanned, Rows, Active

LEMMA NothingLease ==
    ASSUME LeaseInv, QueueInv', NEW w \in Workers, ClaimNothing(w)
    PROVE  LeaseInv'
<1>0. /\ UNCHANGED <<jobs, backup, fence, now, lease, policy>>
      /\ pc' = [pc EXCEPT ![w] = "commit"] /\ pc'[w] = "commit" /\ pc[w] = "select"
      /\ txn' = Scanned(Candidates)
  BY DEF ClaimNothing, LeaseInv, QueueInv, TypeInv, TypeOK, fenceVars
<1>1. \A j \in Jobs : /\ txn'[j].epoch = txn[j].epoch
                      /\ txn'[j].state \in Active <=> txn[j].state \in Active
  BY <1>0, ScannedEpochs DEF LeaseInv
<1>2. Epochs'
  BY <1>0, <1>1 DEF LeaseInv, Epochs, Issued
<1>3. Recovery'
  <2>1. \A j \in Jobs : FenceHolds(j)' = FenceHolds(j)
    BY <1>0 DEF FenceHolds, Live
  <2>2. Selecting
    BY <1>0 DEF Selecting
  <2> QED
    BY <1>0, <1>1, <2>1, <2>2 DEF LeaseInv, Recovery, KeptOrLost
<1>4. Room'
  <2>1. lease'[w] = NoLease
    BY <1>0 DEF LeaseInv, QueueInv, TypeInv, LockDiscipline, Disciplined
  <2> QED
    BY <1>0, <2>1, InClaim DEF Room
<1> QED
  BY <1>2, <1>3, <1>4 DEF LeaseInv

LEMMA CommitLease ==
    ASSUME LeaseInv, QueueInv', NEW w \in Workers, ClaimCommit(w)
    PROVE  LeaseInv'
<1>1. \A v \in Workers : pc'[v] \notin {"select", "commit"}
  BY NothingSelected DEF QueueInv, ClaimCommit
<1>2. \A j \in Jobs : fence[RepoOf[j]].epoch \in Nat
  BY QueueAssumption DEF LeaseInv, QueueInv, TypeInv, TypeOK, FenceTypeOK, FenceRows
<1>3. Epochs'
  BY <1>2 DEF LeaseInv, Epochs, Issued, ClaimCommit, fenceVars, Blank, AbsentRow
<1> QED
  BY <1>1, <1>3 DEF LeaseInv, Recovery, Selecting, Room

\* What the claim has taken: the fence moves on to a new epoch, only the row
\* taken becomes active, and its neighbours had no active row.
LEMMA TakenRows ==
    ASSUME QueueInv, NEW w \in Workers, NEW j \in Jobs, NEW t \in Samples, Taken(w, j, t)
    PROVE  /\ fence'[RepoOf[j]].epoch = fence[RepoOf[j]].epoch + 1
           /\ \A r \in Repos : r # RepoOf[j] => fence'[r] = fence[r]
           /\ now' = now
           /\ txn[j].state = "queued" /\ txn'[j].state = "leased"
           /\ txn'[j].epoch = fence'[RepoOf[j]].epoch
           /\ \A k \in Jobs : k # j =>
                 /\ txn'[k].epoch = txn[k].epoch
                 /\ txn'[k].state \in Active <=> txn[k].state \in Active
                 /\ txn'[k].state \in Active => txn'[k] = txn[k]
<1>1. PICK passed \in SUBSET Candidates :
        txn' = [Scanned(passed) EXCEPT ![j] = LeasedWith(@, fence'[RepoOf[j]])]
  BY DEF Taken
<1>2. Scanned(passed) \in [Jobs -> Rows]
  BY ScannedType DEF QueueInv, TypeInv
<1>3. /\ txn'[j] = LeasedWith(Scanned(passed)[j], fence'[RepoOf[j]])
      /\ \A k \in Jobs : k # j => txn'[k] = Scanned(passed)[k]
  BY <1>1, <1>2
<1>4. txn'[j].state = "leased" /\ txn'[j].epoch = fence'[RepoOf[j]].epoch
  BY <1>2, <1>3 DEF LeasedWith, Rows
<1>5. RepoOf[j] \in Repos /\ fence \in [Repos -> FenceRows]
  BY QueueAssumption DEF QueueInv, TypeInv, TypeOK, FenceTypeOK
<1>6. /\ fence'[RepoOf[j]].epoch = fence[RepoOf[j]].epoch + 1 /\ now' = now
      /\ \A r \in Repos : r # RepoOf[j] => fence'[r] = fence[r]
  BY <1>5 DEF Taken, Acquire
<1>7. txn[j].state = "queued"
  BY DEF Taken, Claimable, Candidates
<1> QED
  BY <1>3, <1>4, <1>6, <1>7, ScannedEpochs

LEMMA TakenLease ==
    ASSUME LeaseInv, QueueInv', NEW w \in Workers, NEW j \in Jobs, NEW t \in Samples,
           Taken(w, j, t)
    PROVE  LeaseInv'
<1>0. /\ UNCHANGED <<jobs, backup, policy>> /\ pc'[w] = "commit" /\ pc[w] = "select"
      /\ lease'[w].job = j
  BY DEF Taken, LeaseInv, QueueInv, TypeInv, TypeOK
<1>1. \A k \in Jobs : RepoOf[k] \in Repos /\ fence[RepoOf[k]].epoch \in Nat
                      /\ jobs[k].epoch \in Nat
  BY QueueAssumption DEF LeaseInv, QueueInv, TypeInv, TypeOK, FenceTypeOK, FenceRows, Rows
<1>2. \A k \in Jobs : RepoOf[k] # RepoOf[j] => fence'[RepoOf[k]] = fence[RepoOf[k]]
  BY <1>1, TakenRows DEF LeaseInv
<1>3. \A k \in Jobs : RepoOf[k] = RepoOf[j] => fence'[RepoOf[k]].epoch = fence[RepoOf[k]].epoch + 1
  BY TakenRows DEF LeaseInv
<1>4. \A k \in Jobs : fence'[RepoOf[k]].epoch >= fence[RepoOf[k]].epoch /\ fence'[RepoOf[k]].epoch \in Nat
  BY <1>1, <1>2, <1>3
<1>5. \A k \in Jobs : txn[k].epoch \in Nat /\ backup[k].epoch \in Nat
  BY DEF LeaseInv, QueueInv, TypeInv, TypeOK, Rows
<1>6. Epochs'
  <2>1. \A k \in Jobs : txn'[k].epoch = txn[k].epoch \/ txn'[k].epoch = fence'[RepoOf[k]].epoch
    BY TakenRows DEF LeaseInv
  <2> QED
    BY <1>0, <1>1, <1>4, <1>5, <2>1 DEF LeaseInv, Epochs, Issued
<1>7. Recovery'
  <2>1. ASSUME NEW k \in Jobs
        PROVE  KeptOrLost(k)'
    <3>1. CASE RepoOf[k] = RepoOf[j]
      <4>1. jobs'[k].epoch # fence'[RepoOf[k]].epoch
        BY <1>0, <1>1, <1>3, <3>1 DEF LeaseInv, Epochs, Issued
      <4> QED
        BY <4>1 DEF KeptOrLost, FenceHolds
    <3>2. CASE RepoOf[k] # RepoOf[j]
      <4>1. k # j /\ FenceHolds(k)' = FenceHolds(k)
        BY <1>0, <1>2, <3>2, TakenRows DEF FenceHolds, Live, LeaseInv
      <4>2. KeptOrLost(k)
        BY <1>0 DEF LeaseInv, Recovery, Selecting
      <4> QED
        BY <1>0, <4>1, <4>2, TakenRows DEF KeptOrLost, LeaseInv
    <3> QED
      BY <3>1, <3>2
  <2> QED
    BY <2>1 DEF Recovery
<1>8. RoomFor(j)'
  <2> DEFINE x == WorkspaceOf[RepoOf[j]]
  <2>1. ActiveIn(txn', x) = ActiveIn(txn, x) \cup {j} /\ j \notin ActiveIn(txn, x)
    BY TakenRows DEF LeaseInv, ActiveIn, Active
  <2>2. IsFiniteSet(ActiveIn(txn, x))
    BY QueueAssumption, FS_Subset DEF ActiveIn
  <2>3. Cardinality(ActiveIn(txn, x)) < policy[x].max_running
    BY DEF Taken, Claimable, HasCapacity, PolicyOf
  <2>4. /\ Cardinality(ActiveIn(txn', x)) = Cardinality(ActiveIn(txn, x)) + 1
        /\ Cardinality(ActiveIn(txn, x)) \in Nat
    BY <2>1, <2>2, FS_AddElement, FS_CardinalityType
  <2>5. policy[x].max_running \in Nat
    BY QueueAssumption DEF LeaseInv, QueueInv, TypeInv, TypeOK
  <2> QED
    BY <1>0, <2>3, <2>4, <2>5 DEF RoomFor
<1>9. Room'
  BY <1>0, <1>8, InClaim DEF Room, RoomFor, ActiveIn
<1> QED
  BY <1>6, <1>7, <1>9 DEF LeaseInv

LEMMA ClaimLeaseInv ==
    ASSUME LeaseInv, QueueInv', NEW w \in Workers, Claim(w)
    PROVE  LeaseInv'
<1>1. CASE ClaimSelect(w)
  BY <1>1, ClaimSelectTakes, TakenLease
<1> QED
  BY <1>1, BeginLease, NothingLease, CommitLease DEF Claim

LEMMA LeaseStep ==
    ASSUME LeaseInv, [Next]_vars
    PROVE  LeaseInv'
<1>1. QueueInv /\ QueueInv'
  BY NextSafe DEF LeaseInv
<1> QED
  BY <1>1, StepKinds, OrdinaryLease, RestoreLease, ClaimLeaseInv

LEMMA InitLease == Init => LeaseInv
<1> SUFFICES ASSUME Init
             PROVE  LeaseInv
  OBVIOUS
<1>1. QueueInv
  BY InitSafe
<1>2. \A j \in Jobs : fence[RepoOf[j]].epoch = 0
  BY QueueAssumption DEF Init, FenceInit, NoRow
<1>3. Epochs
  BY <1>2 DEF Init, Epochs, Issued, Blank, AbsentRow
<1>4. \A w \in Workers : pc[w] = "idle"
  BY DEF Init
<1> QED
  BY <1>1, <1>3, <1>4 DEF LeaseInv, Recovery, Selecting, Room

LEMMA AlwaysLeased == Spec => []LeaseInv
<1>1. LeaseInv /\ [Next]_vars => LeaseInv'
  BY LeaseStep
<1> QED
  BY <1>1, InitLease, PTL DEF Spec

\* A claim ends a lease only when its fence is gone (_recover_expired_leases).
THEOREM LiveFencesKeepTheirJobs == Spec => LiveFenceKeepsItsJob
<1> DEFINE Fair == \A j \in Jobs :
          /\ jobs[j].state \in Active /\ jobs'[j].epoch # jobs[j].epoch
          /\ \A w \in Workers : ~(pc[w] = "closing" /\ lease[w] # NoLease /\ lease[w].job = j)
          /\ ~RestoreQueue
          => ~FenceHolds(j)
<1>1. ASSUME LeaseInv, [Next]_vars
      PROVE  Fair
  <2>1. CASE Ordinary
    BY <2>1 DEF Ordinary, RowKept
  <2>2. ASSUME NEW w \in Workers, Claim(w)
        PROVE  Fair
    <3>1. CASE ClaimCommit(w)
      BY <1>1, <3>1 DEF ClaimCommit, LeaseInv, Recovery, Selecting, KeptOrLost
    <3>2. CASE jobs' = jobs
      BY <3>2
    <3> QED
      BY <2>2, <3>1, <3>2 DEF Claim, ClaimBegin, ClaimSelect, ClaimNothing
  <2> QED
    BY <1>1, <2>1, <2>2, StepKinds DEF LeaseInv
<1> QED
  BY <1>1, AlwaysLeased, PTL DEF Spec, LiveFenceKeepsItsJob

\* A claim leases no job beyond the max_running in force (claim_next).
THEOREM CapacityIsRespected == Spec => CapacityRespected
<1> DEFINE Fits == \A w \in Workers, ws \in Workspaces :
          ClaimCommit(w) /\ lease[w] # NoLease /\ WorkspaceOf[RepoOf[lease[w].job]] = ws
            => Cardinality(ActiveIn(jobs', ws)) <= policy[ws].max_running
<1>1. ASSUME LeaseInv
      PROVE  Fits
  BY <1>1 DEF LeaseInv, Room, RoomFor, ClaimCommit, ActiveIn
<1> QED
  BY <1>1, AlwaysLeased, PTL DEF Spec, CapacityRespected

\* With queue, dispatchers, operators and restores around it, the fence store
\* revives no ended lease (renew, release, force_expire_for_recovery).
THEOREM QueueEndsLeases == Spec => EndedLeaseStaysEnded
<1>1. ASSUME QueueInv, [Next]_vars
      PROVE  \A s \in Scopes : fence[s].epoch = fence'[s].epoch /\ ~Live(s) => ~Live(s)'
  BY <1>1, FenceSteps, EndedStays DEF QueueInv, TypeInv, TypeOK
<1> QED
  BY <1>1, AlwaysSafe, PTL DEF Spec, EndedLeaseStaysEnded, vars

-----------------------------------------------------------------------------
(***************************************************************************)
(* Running leases.  A restored queue database may hold a lease that runs   *)
(* under an epoch the fence store has long passed; before any restore, the *)
(* rows that run have the newest epoch.  While a claim chooses, a row that *)
(* runs in the committed table still counts as active in the claim's own,  *)
(* so that no newer epoch is issued for its repository.                    *)
(***************************************************************************)
Running(row) == row.state \in Active /\ row.expires > now

ClaimSeesRunning ==
    Selecting => \A j \in Jobs :
        /\ Running(jobs[j]) => txn[j].state \in Active
        /\ Running(txn[j]) => txn[j].epoch = fence[RepoOf[j]].epoch

RunningAreNewest ==
    \A j \in Jobs : Running(jobs[j]) => jobs[j].epoch = fence[RepoOf[j]].epoch

NewestInv == RunningAreNewest /\ ClaimSeesRunning

LEMMA Instants ==
    ASSUME QueueInv
    PROVE  /\ now \in Nat
           /\ \A j \in Jobs : jobs[j].expires \in Nat /\ txn[j].expires \in Nat
           /\ \A t \in Samples : t \in Nat /\ t <= now
BY DEF QueueInv, TypeInv, TypeOK, FenceTypeOK, Rows, Samples

LEMMA OrdinaryNewest ==
    ASSUME QueueInv, QueueInv', NewestInv, Ordinary
    PROVE  NewestInv'
<1>1. /\ now \in Nat /\ now' \in Nat /\ now' >= now
      /\ \A j \in Jobs : jobs[j].expires \in Nat /\ txn[j].expires \in Nat /\ jobs'[j].expires \in Nat
      /\ \A j \in Jobs : fence'[RepoOf[j]].epoch = fence[RepoOf[j]].epoch
  BY UpkeepFences, QueueAssumption DEF Ordinary, QueueInv, TypeInv, TypeOK, FenceTypeOK, Rows
<1>2. RunningAreNewest'
  <2> SUFFICES ASSUME NEW j \in Jobs, jobs'[j].state \in Active, jobs'[j].expires > now'
               PROVE  jobs'[j].epoch = fence'[RepoOf[j]].epoch
    BY DEF RunningAreNewest, Running
  <2>1. Renewed(j)
    BY DEF Ordinary, RowKept
  <2>2. CASE jobs'[j].expires = jobs[j].expires
    <3>1. jobs[j].expires > now
      BY <1>1, <2>2
    <3> QED
      BY <1>1, <2>1, <3>1 DEF NewestInv, RunningAreNewest, Renewed, Running
  <2> QED
    BY <1>1, <2>1, <2>2 DEF Renewed
<1>3. CASE lock' = Unlocked
  <2>1. \A v \in Workers : pc'[v] \notin {"select", "commit"}
    BY <1>3, NothingSelected DEF QueueInv
  <2> QED
    BY <1>2, <2>1 DEF NewestInv, ClaimSeesRunning, Selecting
<1>4. CASE ClaimsKept
  <2>1. Selecting' => Selecting
    BY <1>4 DEF ClaimsKept, Selecting
  <2>2. \A j \in Jobs : /\ Running(jobs[j])' => Running(jobs[j])
                        /\ Running(txn[j])' => Running(txn[j])
    BY <1>1, <1>4 DEF ClaimsKept, Running
  <2>3. ClaimSeesRunning'
    BY <1>1, <1>4, <2>1, <2>2 DEF NewestInv, ClaimSeesRunning, ClaimsKept
  <2> QED
    BY <1>2, <2>3 DEF NewestInv
<1> QED
  BY <1>3, <1>4 DEF Ordinary

LEMMA TakenNewest ==
    ASSUME QueueInv, NewestInv, NEW w \in Workers, NEW j \in Jobs, NEW t \in Samples,
           Taken(w, j, t)
    PROVE  NewestInv'
<1>0. jobs' = jobs /\ now' = now /\ Selecting
  BY DEF Taken, Acquire, Selecting
<1>1. \A k \in Jobs : RepoOf[k] # RepoOf[j] => fence'[RepoOf[k]] = fence[RepoOf[k]]
  BY TakenRows, QueueAssumption
<1>2. \A k \in Jobs : RepoOf[k] = RepoOf[j] => txn[k].state \notin Active
  BY DEF Taken, Claimable, HasCapacity
<1>3. \A k \in Jobs : Running(jobs[k]) => txn[k].state \in Active /\ k # j /\ RepoOf[k] # RepoOf[j]
  BY <1>0, <1>2 DEF NewestInv, ClaimSeesRunning
<1>4. RunningAreNewest'
  BY <1>0, <1>1, <1>3 DEF NewestInv, RunningAreNewest, Running
<1>5. ASSUME NEW k \in Jobs
      PROVE  /\ Running(jobs[k])' => txn'[k].state \in Active
             /\ Running(txn[k])' => txn'[k].epoch = fence'[RepoOf[k]].epoch
  <2>1. CASE k = j
    BY <2>1, TakenRows DEF Active
  <2>2. CASE k # j
    <3>1. /\ txn'[k].state \in Active <=> txn[k].state \in Active
          /\ txn'[k].state \in Active => txn'[k] = txn[k]
      BY <2>2, TakenRows
    <3>2. Running(jobs[k])' => txn'[k].state \in Active
      BY <1>0, <1>3, <3>1 DEF Running
    <3>3. ASSUME Running(txn[k])'
          PROVE  txn'[k].epoch = fence'[RepoOf[k]].epoch
      <4>1. txn'[k] = txn[k] /\ Running(txn[k])
        BY <1>0, <3>1, <3>3 DEF Running
      <4>2. RepoOf[k] # RepoOf[j]
        BY <1>2, <4>1 DEF Running
      <4> QED
        BY <1>0, <1>1, <4>1, <4>2 DEF NewestInv, ClaimSeesRunning
    <3> QED
      BY <3>2, <3>3
  <2> QED
    BY <2>1, <2>2
<1>6. ClaimSeesRunning'
  BY <1>5 DEF ClaimSeesRunning
<1> QED
  BY <1>4, <1>6 DEF NewestInv

LEMMA ClaimNewest ==
    ASSUME QueueInv, QueueInv', NewestInv, NEW w \in Workers, Claim(w)
    PROVE  NewestInv'
<1>1. CASE ClaimBegin(w)
  <2>0. UNCHANGED <<jobs, fence, now>>
    BY <1>1 DEF ClaimBegin, fenceVars
  <2>1. PICK t \in Samples : txn' = Recovered(t)
    BY <1>1 DEF ClaimBegin
  <2>2. t \in Nat /\ t <= now /\ now \in Nat /\ \A j \in Jobs : jobs[j].expires \in Nat
    BY Instants
  <2>3. ASSUME NEW j \in Jobs
        PROVE  /\ Running(jobs[j]) => txn'[j].state \in Active
               /\ txn'[j].state \in Active /\ txn'[j].expires > now
                     => txn'[j].epoch = fence[RepoOf[j]].epoch
    <3>1. Running(jobs[j]) => jobs[j].expires > t
      BY <2>2 DEF Running
    <3>2. Running(jobs[j]) => txn'[j].state \in Active
      BY <2>1, <3>1, RecoveredRow DEF Running
    <3>3. txn'[j].state \in Active => txn'[j] = jobs[j] \/ jobs[j].epoch = fence[RepoOf[j]].epoch
      BY <2>1, RecoveredRow DEF FenceHolds
    <3>4. txn'[j].state \in Active => txn'[j].epoch = jobs[j].epoch
      BY <2>1, RecoveredRow
    <3> QED
      BY <3>2, <3>3, <3>4 DEF NewestInv, RunningAreNewest, Running
  <2> QED
    BY <2>0, <2>3 DEF NewestInv, RunningAreNewest, ClaimSeesRunning, Running
<1>2. CASE ClaimSelect(w)
  BY <1>2, ClaimSelectTakes, TakenNewest
<1>3. CASE ClaimNothing(w)
  <2>0. UNCHANGED <<jobs, fence, now>> /\ txn' = Scanned(Candidates) /\ Selecting
    BY <1>3 DEF ClaimNothing, fenceVars, Selecting
  <2>1. \A j \in Jobs : /\ txn'[j].state \in Active <=> txn[j].state \in Active
                        /\ txn'[j].state \in Active => txn'[j] = txn[j]
    BY <2>0, ScannedEpochs
  <2> QED
    BY <2>0, <2>1 DEF NewestInv, RunningAreNewest, ClaimSeesRunning, Running
<1>4. CASE ClaimCommit(w)
  <2>1. \A v \in Workers : pc'[v] \notin {"select", "commit"}
    BY <1>4, NothingSelected DEF QueueInv, ClaimCommit
  <2>2. Selecting
    BY <1>4 DEF ClaimCommit, Selecting
  <2>3. RunningAreNewest'
    BY <1>4, <2>2 DEF ClaimCommit, fenceVars, NewestInv, ClaimSeesRunning, Running,
       RunningAreNewest
  <2> QED
    BY <2>1, <2>3 DEF NewestInv, ClaimSeesRunning, Selecting
<1> QED
  BY <1>1, <1>2, <1>3, <1>4 DEF Claim

\* Only a restore counts as one.
LEMMA RestoresCounted ==
    ASSUME QueueInv, [Next]_vars, spent'.restores = 0
    PROVE  spent.restores = 0 /\ ~RestoreQueue
<1>0. spent \in [faults : Nat, forced : Nat, policies : Nat, restores : Nat]
  BY DEF QueueInv, TypeInv, TypeOK
<1>1. ~RestoreQueue
  BY <1>0 DEF RestoreQueue, Spend
<1>2. ASSUME NEW w \in Workers, Claim(w) \/ Heartbeat(w) \/ Run(w) \/ Fault(w)
      PROVE  spent'.restores = spent.restores
  <2>1. CASE Claim(w)
    BY <1>0, <2>1 DEF Claim, ClaimBegin, ClaimSelect, ClaimNothing, ClaimCommit
  <2>2. CASE Heartbeat(w)
    BY <1>0, <2>2 DEF Heartbeat, HeartbeatCheck, HeartbeatRenew, HeartbeatDenied, HeartbeatCommit
  <2>3. CASE Run(w)
    BY <1>0, <2>3 DEF Run, StartCheck, StartCommit, Guard, Stage, CompleteCheck, CompleteCommit,
       FailCheck, FailCommit, ReleaseFence, Join, Check, Commit
  <2>4. CASE Fault(w)
    BY <1>0, <2>4 DEF Fault, ClaimAbort, HeartbeatError, PipelineFails, CommitError, Crash, Spend
  <2> QED
    BY <1>2, <2>1, <2>2, <2>3, <2>4
<1>3. CASE \/ \E j \in Jobs : PrepareAdmission(j) \/ Enqueue(j) \/ CancelJob(j)
           \/ \E r \in Repos : OperatorExpire(r)
           \/ TakeBackup \/ Pass \/ UNCHANGED vars
  <2>1. spent' = spent
    BY <1>3 DEF PrepareAdmission, Enqueue, CancelJob, OperatorExpire, TakeBackup, Pass, vars,
       queueVars
  <2> QED
    BY <1>1, <2>1
<1>4. CASE \/ \E x \in Workspaces, p \in Policies : SetPolicy(x, p)
           \/ \E r \in Repos : OperatorConfirm(r)
  <2>1. spent'.restores = spent.restores
    BY <1>0, <1>4 DEF SetPolicy, OperatorConfirm, Spend
  <2> QED
    BY <1>1, <2>1
<1> QED
  BY <1>1, <1>2, <1>3, <1>4 DEF Next

\* As long as a queue lease runs, no newer epoch exists for its repository, until the queue
\* database is restored from a copy (claim_next, heartbeat, _recover_expired_leases,
\* force_expire_fence).
THEOREM RunningLeasesAreNewest == Spec => []RunningLeaseIsNewest
<1> DEFINE Inv == QueueInv /\ (spent.restores = 0 => NewestInv)
<1>1. Init => Inv
  <2> SUFFICES ASSUME Init
               PROVE  NewestInv /\ QueueInv
    OBVIOUS
  <2>1. /\ \A w \in Workers : pc[w] = "idle"
        /\ \A j \in Jobs : jobs[j].state \notin Active
    BY DEF Init, Blank, AbsentRow, Active
  <2> QED
    BY <2>1, InitSafe DEF NewestInv, RunningAreNewest, Running, ClaimSeesRunning, Selecting
<1>2. Inv /\ [Next]_vars => Inv'
  <2> SUFFICES ASSUME Inv, [Next]_vars
               PROVE  Inv'
    OBVIOUS
  <2>1. QueueInv'
    BY NextSafe
  <2>2. ASSUME spent'.restores = 0
        PROVE  NewestInv'
    BY <2>1, <2>2, RestoresCounted, StepKinds, OrdinaryNewest, ClaimNewest
  <2> QED
    BY <2>1, <2>2
<1>3. Inv => RunningLeaseIsNewest
  BY DEF NewestInv, RunningAreNewest, Running, RunningLeaseIsNewest
<1> QED
  BY <1>1, <1>2, <1>3, PTL DEF Spec

-----------------------------------------------------------------------------
(***************************************************************************)
(* Superseded workers.  A lease is known by its token: no two leases have  *)
(* one token, so that whoever shows the token of the fence has its epoch,  *)
(* and the epoch of a lease is never ahead of its repository's.            *)
(***************************************************************************)
Known(w) ==
    lease[w] # NoLease =>
        LET row == fence[RepoOf[lease[w].job]]
        IN /\ lease[w].token \in 1..issued /\ lease[w].epoch <= row.epoch
           /\ row.token = lease[w].token => row.epoch = lease[w].epoch

LeasesKnown == \A w \in Workers : Known(w)

SameLease(w) ==
    /\ lease[w] # NoLease /\ lease'[w].job = lease[w].job
    /\ lease'[w].token = lease[w].token /\ lease'[w].epoch = lease[w].epoch

\* What a step does to a worker's lease.
LEMMA LeaseSteps ==
    ASSUME QueueInv, [Next]_vars, NEW w \in Workers
    PROVE  \/ lease'[w] = NoLease
           \/ SameLease(w)
           \/ \E t \in Samples, j \in Jobs : Taken(w, j, t)
<1>0. lease \in [Workers -> Leases \cup {NoLease}]
  BY DEF QueueInv, TypeInv, TypeOK
<1>1. lease' = lease => lease'[w] = NoLease \/ SameLease(w)
  BY DEF SameLease
<1>2. ASSUME NEW v \in Workers, ClaimSelect(v)
      PROVE  lease'[w] = NoLease \/ SameLease(w) \/ \E t \in Samples, j \in Jobs : Taken(w, j, t)
  <2>1. PICK t \in Samples, j \in Jobs : Taken(v, j, t)
    BY <1>2, ClaimSelectTakes
  <2>2. CASE v # w
    BY <1>0, <2>1, <2>2 DEF Taken, SameLease
  <2> QED
    BY <2>1, <2>2
<1>3. ASSUME NEW v \in Workers, Reset(v)
      PROVE  lease'[w] = NoLease \/ SameLease(w)
  BY <1>0, <1>3 DEF Reset, SameLease
<1>4. ASSUME NEW v \in Workers, HeartbeatRenew(v) \/ HeartbeatCommit(v) \/ HeartbeatError(v)
      PROVE  lease'[w] = NoLease \/ SameLease(w)
  <2>1. InCheck(v)
    BY <1>4 DEF HeartbeatRenew, HeartbeatCommit, HeartbeatError, InCheck, Beating
  <2>2. lease[v] \in Leases /\ lease[v] # NoLease
    BY <2>1, InCheckLeased, QueueAssumption DEF QueueInv
  <2>3. PICK x : lease' = [lease EXCEPT ![v].expires = x]
    BY <1>4 DEF HeartbeatRenew, HeartbeatCommit, HeartbeatError
  <2>4. \A u \in Workers \ {v} : lease'[u] = lease[u]
    BY <1>0, <2>3
  <2>5. lease'[v] = [lease[v] EXCEPT !.expires = x]
    BY <1>0, <2>3
  <2>6. SameLease(v)
    BY <2>2, <2>5 DEF SameLease, Leases
  <2> QED
    BY <2>4, <2>6 DEF SameLease
<1>5. ASSUME NEW v \in Workers, Claim(v) \/ Heartbeat(v)
      PROVE  lease'[w] = NoLease \/ SameLease(w) \/ \E t \in Samples, j \in Jobs : Taken(w, j, t)
  BY <1>1, <1>2, <1>4, <1>5 DEF Claim, ClaimBegin, ClaimNothing, ClaimCommit, Heartbeat,
     HeartbeatCheck, HeartbeatDenied
<1>6. ASSUME NEW v \in Workers, Run(v)
      PROVE  lease'[w] = NoLease \/ SameLease(w)
  <2>1. lease' = lease \/ Reset(v)
    BY <1>6 DEF Run, StartCheck, StartCommit, Guard, Stage, CompleteCheck, CompleteCommit,
       FailCheck, FailCommit, ReleaseFence, Join, Check, Commit
  <2> QED
    BY <1>1, <1>3, <2>1
<1>7. ASSUME NEW v \in Workers, Fault(v)
      PROVE  lease'[w] = NoLease \/ SameLease(w)
  <2>1. lease' = lease \/ Reset(v) \/ HeartbeatError(v)
    BY <1>7 DEF Fault, ClaimAbort, PipelineFails, CommitError, Crash
  <2> QED
    BY <1>1, <1>3, <1>4, <2>1
<1>8. CASE \/ \E j \in Jobs : PrepareAdmission(j) \/ Enqueue(j) \/ CancelJob(j)
           \/ \E x \in Workspaces, p \in Policies : SetPolicy(x, p)
           \/ \E r \in Repos : OperatorConfirm(r) \/ OperatorExpire(r)
           \/ TakeBackup \/ RestoreQueue \/ Pass \/ UNCHANGED vars
  BY <1>1, <1>8 DEF PrepareAdmission, Enqueue, CancelJob, SetPolicy, OperatorConfirm,
     OperatorExpire, TakeBackup, RestoreQueue, Pass, vars, queueVars
<1> QED
  BY <1>5, <1>6, <1>7, <1>8 DEF Next

\* What a step does to a fence: epochs grow, and a new token is one never issued before.
LEMMA FenceTokens ==
    ASSUME QueueInv, [Next]_vars, NEW r \in Repos
    PROVE  /\ issued \in Nat /\ issued' \in Nat /\ issued' >= issued
           /\ fence[r].epoch \in Nat /\ fence'[r].epoch \in Nat
           /\ fence'[r].epoch >= fence[r].epoch
           /\ \/ fence'[r].epoch = fence[r].epoch /\ fence'[r].token \in {0, fence[r].token}
              \/ fence'[r].token = issued + 1
<1>0. FenceTypeOK /\ fence[r] \in FenceRows /\ issued \in Nat
  BY DEF QueueInv, TypeInv, TypeOK, FenceTypeOK
<1>1. CASE Grants
  <2>1. PICK s \in Scopes, j \in Holders, d \in Durations, t \in Samples : Acquire(s, j, d, t)
    BY <1>1 DEF Grants
  <2>2. CASE s = r
    BY <1>0, <2>1, <2>2 DEF Acquire, FenceTypeOK, FenceRows
  <2>3. CASE s # r
    BY <1>0, <2>1, <2>3 DEF Acquire, FenceTypeOK, FenceRows
  <2> QED
    BY <2>2, <2>3
<1>2. CASE Upkeep
  <2>1. fence'[r].epoch = fence[r].epoch
    BY <1>0, <1>2, UpkeepOnlyLoses
  <2>2. issued' = issued /\ fence'[r].token \in {0, fence[r].token}
    BY <1>0, <1>2 DEF Upkeep, Renew, Release, ForceExpire, Tick, fenceVars, FenceTypeOK, FenceRows
  <2> QED
    BY <1>0, <2>1, <2>2 DEF FenceRows
<1> QED
  BY <1>1, <1>2, FenceSteps

LEMMA LeasesStayKnown ==
    ASSUME QueueInv, LeasesKnown, [Next]_vars
    PROVE  LeasesKnown'
<1> SUFFICES ASSUME NEW w \in Workers, lease'[w] # NoLease
             PROVE  Known(w)'
  BY DEF LeasesKnown, Known
<1>0. lease \in [Workers -> Leases \cup {NoLease}] /\ FenceTypeOK
  BY DEF QueueInv, TypeInv, TypeOK
<1>1. CASE SameLease(w)
  <2> DEFINE r == RepoOf[lease[w].job]
  <2>1. lease[w] \in Leases /\ r \in Repos
    BY <1>0, <1>1, QueueAssumption DEF SameLease, Leases
  <2>2. /\ lease[w].token \in 1..issued /\ lease[w].epoch <= fence[r].epoch
        /\ fence[r].token = lease[w].token => fence[r].epoch = lease[w].epoch
        /\ lease[w].epoch \in Nat /\ lease[w].token \in Nat
    BY <1>1, <2>1 DEF SameLease, LeasesKnown, Known, Leases
  <2>3. lease'[w].job = lease[w].job /\ lease'[w].token = lease[w].token
        /\ lease'[w].epoch = lease[w].epoch
    BY <1>1 DEF SameLease
  <2> HIDE DEF r
  <2>4. /\ lease[w].token \in 1..issued' /\ lease[w].epoch <= fence'[r].epoch
        /\ fence'[r].token = lease[w].token => fence'[r].epoch = lease[w].epoch
    BY <2>1, <2>2, FenceTokens
  <2> QED
    BY <2>3, <2>4 DEF Known, r
<1>2. ASSUME NEW t \in Samples, NEW j \in Jobs, Taken(w, j, t)
      PROVE  Known(w)'
  <2>1. /\ lease'[w].job = j /\ lease'[w].token = fence'[RepoOf[j]].token
        /\ lease'[w].epoch = fence'[RepoOf[j]].epoch
    BY <1>0, <1>2 DEF Taken
  <2>2. /\ fence'[RepoOf[j]].token = issued + 1 /\ issued' = issued + 1 /\ issued \in Nat
        /\ fence'[RepoOf[j]].epoch \in Nat
    BY <1>0, <1>2, QueueAssumption DEF Taken, Acquire, FenceTypeOK, FenceRows
  <2> QED
    BY <2>1, <2>2 DEF Known
<1> QED
  BY <1>1, <1>2, LeaseSteps

\* A worker enters a transaction, a stage or a renewal only past _leased_row.
LEMMA PassesCheck ==
    ASSUME QueueInv, [Next]_vars, NEW w \in Workers,
           \/ pc'[w] \in {"starting", "authorised", "completing", "closing"} /\ pc'[w] # pc[w]
           \/ beat'[w] \in Beating /\ beat'[w] # beat[w]
    PROVE  lease[w] # NoLease => fence[RepoOf[lease[w].job]].token = lease[w].token
<1>0. /\ pc \in [Workers -> {"idle", "select", "commit", "leased", "start", "starting", "running",
                 "authorised", "completing", "failing", "closing", "release", "join"}]
      /\ beat \in [Workers -> {"off", "on", "checked", "renewed", "lost"}]
  BY DEF QueueInv, TypeInv, TypeOK
<1> DEFINE Shown == fence[RepoOf[lease[w].job]].token = lease[w].token
           Moved == \/ pc'[w] \in {"starting", "authorised", "completing", "closing"} /\ pc'[w] # pc[w]
                    \/ beat'[w] \in Beating /\ beat'[w] # beat[w]
<1>1. ASSUME NEW states, LeasedRow(w, states)
      PROVE  Shown
  BY <1>1 DEF LeasedRow, Validated
<1>2. ASSUME NEW v \in Workers, Claim(v) \/ Heartbeat(v) \/ Run(v) \/ Fault(v), v # w
      PROVE  FALSE
  <2>1. pc'[w] = pc[w] /\ beat'[w] = beat[w]
    <3>1. CASE Claim(v)
      BY <1>0, <1>2, <3>1 DEF Claim, ClaimBegin, ClaimSelect, ClaimNothing, ClaimCommit
    <3>2. CASE Heartbeat(v)
      BY <1>0, <1>2, <3>2 DEF Heartbeat, HeartbeatCheck, HeartbeatRenew, HeartbeatDenied,
         HeartbeatCommit, BeatFails
    <3>3. CASE Run(v)
      BY <1>0, <1>2, <3>3 DEF Run, StartCheck, StartCommit, Guard, Stage, CompleteCheck,
         CompleteCommit, FailCheck, FailCommit, ReleaseFence, Join, Reset, Check, Commit
    <3>4. CASE Fault(v)
      BY <1>0, <1>2, <3>4 DEF Fault, ClaimAbort, HeartbeatError, PipelineFails, CommitError, Crash,
         Reset, BeatFails
    <3> QED
      BY <1>2, <3>1, <3>2, <3>3, <3>4
  <2> QED
    BY <2>1
<1>3. CASE Claim(w) \/ Fault(w)
  <2>1. ~Moved
    BY <1>0, <1>3 DEF Claim, ClaimBegin, ClaimSelect, ClaimNothing, ClaimCommit, Fault, ClaimAbort,
       HeartbeatError, PipelineFails, CommitError, Crash, Reset, BeatFails, Beating
  <2> QED
    BY <2>1
<1>4. CASE Heartbeat(w)
  <2>1. CASE HeartbeatCheck(w)
    <3>1. LeasedRow(w, Active) \/ ~Moved
      BY <1>0, <2>1 DEF HeartbeatCheck, BeatFails, Beating
    <3> QED
      BY <1>1, <3>1
  <2>2. CASE HeartbeatRenew(w)
    BY <2>2 DEF HeartbeatRenew, Renew, Validated
  <2>3. CASE HeartbeatDenied(w) \/ HeartbeatCommit(w)
    <3>1. ~Moved
      BY <1>0, <2>3 DEF HeartbeatDenied, HeartbeatCommit, BeatFails, Beating
    <3> QED
      BY <3>1
  <2> QED
    BY <1>4, <2>1, <2>2, <2>3 DEF Heartbeat
<1>5. CASE Run(w)
  <2>1. CASE StartCheck(w) \/ CompleteCheck(w) \/ FailCheck(w) \/ Guard(w)
    <3>1. (\E states : LeasedRow(w, states)) \/ ~Moved
      BY <1>0, <2>1 DEF StartCheck, CompleteCheck, FailCheck, Guard, Check
    <3> QED
      BY <1>1, <3>1
  <2>2. CASE StartCommit(w) \/ CompleteCommit(w) \/ FailCommit(w) \/ Stage(w) \/ ReleaseFence(w)
             \/ Join(w)
    <3>1. ~Moved
      BY <1>0, <2>2 DEF StartCommit, CompleteCommit, FailCommit, Stage, ReleaseFence, Join, Reset,
         Commit, Beating
    <3> QED
      BY <3>1
  <2> QED
    BY <1>5, <2>1, <2>2 DEF Run
<1>6. CASE \/ \E j \in Jobs : PrepareAdmission(j) \/ Enqueue(j) \/ CancelJob(j)
           \/ \E x \in Workspaces, p \in Policies : SetPolicy(x, p)
           \/ \E r \in Repos : OperatorConfirm(r) \/ OperatorExpire(r)
           \/ TakeBackup \/ RestoreQueue \/ Pass \/ UNCHANGED vars
  BY <1>6 DEF PrepareAdmission, Enqueue, CancelJob, SetPolicy, OperatorConfirm,
     OperatorExpire, TakeBackup, RestoreQueue, Pass, vars, queueVars
<1> QED
  BY <1>2, <1>3, <1>4, <1>5, <1>6 DEF Next

\* Whatever crashes, revocations, retries and restores there are, a worker whose repository
\* has a newer epoch carries out no stage but the one it was authorised for (execution_guard,
\* _leased_row).
THEOREM SupersededWorkersAreStopped == Spec => SupersededWorkersStop
<1> DEFINE Stops == \A w \in Workers : Superseded(w) =>
          /\ Superseded(w)' \/ lease'[w] = NoLease
          /\ pc'[w] \in {"starting", "authorised", "completing", "closing"} => pc'[w] = pc[w]
          /\ beat'[w] \in Beating => beat'[w] = beat[w]
<1>1. Init => LeasesKnown
  BY DEF Init, LeasesKnown, Known
<1>2. QueueInv /\ LeasesKnown /\ [Next]_vars => LeasesKnown'
  BY LeasesStayKnown
<1>3. ASSUME QueueInv, LeasesKnown, [Next]_vars
      PROVE  Stops
  <2> SUFFICES ASSUME NEW w \in Workers, Superseded(w)
               PROVE  /\ Superseded(w)' \/ lease'[w] = NoLease
                      /\ pc'[w] \in {"starting", "authorised", "completing", "closing"}
                            => pc'[w] = pc[w]
                      /\ beat'[w] \in Beating => beat'[w] = beat[w]
    OBVIOUS
  <2> DEFINE r == RepoOf[lease[w].job]
  <2>0. /\ lease[w] # NoLease /\ fence[r].epoch # lease[w].epoch /\ lease[w] \in Leases
        /\ r \in Repos /\ lease[w].epoch \in Nat
    BY <1>3, QueueAssumption DEF Superseded, QueueInv, TypeInv, TypeOK, Leases
  <2>1. /\ fence[r].token # lease[w].token /\ lease[w].epoch <= fence[r].epoch
    BY <1>3, <2>0 DEF LeasesKnown, Known
  <2>2. /\ pc'[w] \in {"starting", "authorised", "completing", "closing"} => pc'[w] = pc[w]
        /\ beat'[w] \in Beating => beat'[w] = beat[w]
    BY <1>3, <2>0, <2>1, PassesCheck
  <2>3. CASE SameLease(w)
    <3>1. fence'[r].epoch >= fence[r].epoch /\ fence[r].epoch \in Nat /\ fence'[r].epoch \in Nat
      BY <1>3, <2>0, FenceTokens
    <3>2. fence'[r].epoch # lease[w].epoch
      <4> HIDE DEF r
      <4> QED
        BY <2>0, <2>1, <3>1
    <3>3. lease'[w].job = lease[w].job /\ lease'[w].epoch = lease[w].epoch
      BY <2>3 DEF SameLease
    <3>4. lease'[w] = NoLease \/ Superseded(w)'
      BY <3>2, <3>3 DEF Superseded
    <3> QED
      BY <2>2, <3>4
  <2>4. CASE \E t \in Samples, j \in Jobs : Taken(w, j, t)
    <3>1. pc[w] = "select"
      BY <2>4 DEF Taken
    <3> QED
      BY <1>3, <2>0, <3>1 DEF QueueInv, TypeInv, LockDiscipline, Disciplined
  <2> QED
    BY <1>3, <2>2, <2>3, <2>4, LeaseSteps
<1> QED
  BY <1>1, <1>2, <1>3, AlwaysSafe, PTL DEF Spec, SupersededWorkersStop
=============================================================================
