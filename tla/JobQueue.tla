------------------------------ MODULE JobQueue ------------------------------
(***************************************************************************)
(* DevelopmentJobQueue and QueuedWorkerDispatcher                          *)
(* (tankai/dev_orchestrator/job_queue.py) composed with the fence store.   *)
(*                                                                         *)
(* The queue and the fence store are two databases: a queue transaction    *)
(* that also changes a fence commits in two steps, and the process may     *)
(* stop between them.  A queue transaction holds the database's write lock *)
(* from BEGIN IMMEDIATE to COMMIT (lock); the fence store changes          *)
(* underneath it: fences expire, operators revoke them, and finished       *)
(* workers release them.                                                   *)
(*                                                                         *)
(* A worker is one dispatcher process with two threads: "main" is          *)
(* run_once, "beat" its heartbeat thread.                                  *)
(***************************************************************************)
EXTENDS LeaseFence, FiniteSets

CONSTANTS Workers,      \* dispatcher processes
          Workspaces,
          Policies,     \* the queue policies an admin may set
          RepoOf,       \* repository of a job
          WorkspaceOf,  \* workspace of a repository
          ProfileOf,    \* image and resource budget a job asks for
          Rank,         \* ORDER BY priority DESC, created_at, id, as a number
          ScanLimit,    \* LIMIT 200: the candidates one claim looks at
          ClaimLease,   \* lease_seconds of claim_next
          BeatLease,    \* effective_lease_seconds of the heartbeats
          Retryable,    \* what callers of fail_job pass; the dispatcher passes FALSE
          NoPolicy, NoLease, Unlocked,
          MaxBeats,     \* bound on the renewals of one heartbeat thread
          MaxStages,    \* bound on the guarded stages of one pipeline
          MaxFaults,    \* bound on crashes and failing transactions
          MaxForced,    \* bound on operator revocations
          MaxPolicies,  \* bound on policy changes
          MaxRestores   \* bound on restores of the queue database

Jobs == Holders
Repos == Scopes
Active == {"leased", "running"}
Terminal == {"succeeded", "failed", "cancelled"}
Leases == [job : Jobs, token : Nat, epoch : Nat, expires : Nat]

ASSUME QueueAssumption ==
    /\ IsFiniteSet(Jobs)
    /\ RepoOf \in [Jobs -> Repos]
    /\ WorkspaceOf \in [Repos -> Workspaces]
    /\ Rank \in [Jobs -> Nat] /\ \A i, j \in Jobs : Rank[i] = Rank[j] => i = j
    /\ \A p \in Policies : {p.max_queued, p.max_running, p.max_attempts} \subseteq Nat \ {0}
    /\ {ClaimLease, BeatLease} \subseteq Durations
    /\ Retryable \subseteq BOOLEAN
    /\ NoPolicy \notin Policies /\ NoLease \notin Leases
    /\ Unlocked \notin Workers \X {"main", "beat"}
    /\ {ScanLimit, MaxBeats, MaxStages, MaxFaults, MaxForced, MaxPolicies, MaxRestores} \subseteq Nat

VARIABLES jobs,      \* development_jobs, as committed
          policy,    \* queue_policies, one per workspace
          plan,      \* plan[j]: the policy _prepare_admission read for request j
          lock,      \* who is inside BEGIN IMMEDIATE .. COMMIT on the queue
          txn,       \* development_jobs as the claim in progress has changed them
          pc,        \* where run_once of a worker is
          beat,      \* where its heartbeat thread is
          lease,     \* the JobLease it holds, with the expiry of the renewal in progress
          count,     \* how often it has renewed and passed a stage
          lastStage, \* lastStage[r]: the epoch under which r was last changed
          operator,  \* the epoch an operator has confirmed for revocation
          backup,    \* a copy of development_jobs
          spent      \* how much of each bound has been used

queueVars == <<jobs, policy, plan, lock, txn, pc, beat, lease, count, lastStage,
               operator, backup, spent>>
vars == <<fenceVars, queueVars>>

States == {"absent", "queued"} \cup Active \cup Terminal
Rows == [state : States, attempts : Nat, max_attempts : Nat,
         token : Nat, expires : Nat, epoch : Nat]
AbsentRow == [state |-> "absent", attempts |-> 0, max_attempts |-> 0,
              token |-> 0, expires |-> 0, epoch |-> 0]
Blank == [j \in Jobs |-> AbsentRow]
Idle == [beats |-> 0, stages |-> 0]

Init ==
    /\ FenceInit
    /\ jobs = Blank
    /\ policy \in [Workspaces -> Policies]
    /\ plan = [j \in Jobs |-> NoPolicy]
    /\ lock = Unlocked
    /\ txn = Blank
    /\ pc = [w \in Workers |-> "idle"]
    /\ beat = [w \in Workers |-> "off"]
    /\ lease = [w \in Workers |-> NoLease]
    /\ count = [w \in Workers |-> Idle]
    /\ lastStage = [r \in Repos |-> 0]
    /\ operator = [r \in Repos |-> 0]
    /\ backup = Blank
    /\ spent = [faults |-> 0, forced |-> 0, policies |-> 0, restores |-> 0]

Spend(what, max) == spent[what] < max /\ spent' = [spent EXCEPT ![what] = @ + 1]
PolicyOf(j) == policy[WorkspaceOf[RepoOf[j]]]

-----------------------------------------------------------------------------
(***************************************************************************)
(* Admission.  _prepare_admission reads the policy on a connection of its  *)
(* own; the INSERT happens later, in its own transaction, with that copy.  *)
(* A job is identified with its idempotency key: a replay or a conflicting *)
(* reuse finds the row and changes nothing.  The hourly limit per user is  *)
(* left out: it only rejects requests this model lets in.                  *)
(***************************************************************************)
PrepareAdmission(j) ==
    /\ jobs[j].state = "absent" /\ plan[j] = NoPolicy
    /\ PolicyOf(j).enabled /\ ProfileOf[j] \in PolicyOf(j).allowed
    /\ plan' = [plan EXCEPT ![j] = PolicyOf(j)]
    /\ UNCHANGED <<fenceVars, jobs, policy, lock, txn, pc, beat, lease, count, lastStage,
                   operator, backup, spent>>

Queued(ws) == {k \in Jobs : jobs[k].state = "queued" /\ WorkspaceOf[RepoOf[k]] = ws}

Enqueue(j) ==
    /\ plan[j] # NoPolicy /\ lock = Unlocked
    /\ jobs' = IF jobs[j].state = "absent"
                    /\ Cardinality(Queued(WorkspaceOf[RepoOf[j]])) < plan[j].max_queued
               THEN [jobs EXCEPT ![j] = [AbsentRow EXCEPT !.state = "queued",
                                                          !.max_attempts = plan[j].max_attempts]]
               ELSE jobs
    /\ plan' = [plan EXCEPT ![j] = NoPolicy]
    /\ UNCHANGED <<fenceVars, policy, lock, txn, pc, beat, lease, count, lastStage,
                   operator, backup, spent>>

\* Mutation: cancel_job forgets that only a queued job can be cancelled.
CancelAnyJob(j) ==
    /\ lock = Unlocked /\ jobs[j].state # "absent"
    /\ jobs' = [jobs EXCEPT ![j].state = "cancelled"]
    /\ UNCHANGED <<fenceVars, policy, plan, lock, txn, pc, beat, lease, count, lastStage,
                   operator, backup, spent>>

CancelJob(j) ==
    /\ lock = Unlocked /\ jobs[j].state = "queued"
    /\ jobs' = [jobs EXCEPT ![j].state = "cancelled"]
    /\ UNCHANGED <<fenceVars, policy, plan, lock, txn, pc, beat, lease, count, lastStage,
                   operator, backup, spent>>

SetPolicy(ws, p) ==
    /\ lock = Unlocked /\ p # policy[ws] /\ Spend("policies", MaxPolicies)
    /\ policy' = [policy EXCEPT ![ws] = p]
    /\ UNCHANGED <<fenceVars, jobs, plan, lock, txn, pc, beat, lease, count, lastStage,
                   operator, backup>>

-----------------------------------------------------------------------------
(***************************************************************************)
(* claim_next: take the write lock and recover expired leases (ClaimBegin),*)
(* choose a job and acquire its fence, which commits in the other database *)
(* (ClaimSelect), then commit the queue (ClaimCommit).                     *)
(***************************************************************************)
EndLease(row, retry) ==
    [row EXCEPT !.state = IF retry THEN "queued" ELSE "failed",
                !.token = 0, !.expires = 0, !.epoch = IF retry THEN 0 ELSE @]

\* The external fence still belongs to this row.
FenceHolds(j) ==
    /\ Live(RepoOf[j])
    /\ fence[RepoOf[j]].job = j
    /\ jobs[j].epoch # 0 /\ fence[RepoOf[j]].epoch = jobs[j].epoch

\* Mutation: the recovery trusts the queue's copy of the expiry alone.
RecoveredByQueueAlone(t) ==
    [j \in Jobs |->
        IF jobs[j].state \notin Active \/ jobs[j].expires = 0 \/ jobs[j].expires > t
        THEN jobs[j]
        ELSE EndLease(jobs[j], jobs[j].attempts < jobs[j].max_attempts)]

\* Mutation: the recovery allows one attempt too many.
RecoveredOnceMore(t) ==
    [j \in Jobs |->
        IF jobs[j].state \notin Active \/ jobs[j].expires = 0 \/ jobs[j].expires > t
        THEN jobs[j]
        ELSE IF FenceHolds(j)
             THEN [jobs[j] EXCEPT !.expires = fence[RepoOf[j]].expires]
             ELSE EndLease(jobs[j], jobs[j].attempts <= jobs[j].max_attempts)]

\* _recover_expired_leases at the instant t the claimant read.
Recovered(t) ==
    [j \in Jobs |->
        IF jobs[j].state \notin Active \/ jobs[j].expires = 0 \/ jobs[j].expires > t
        THEN jobs[j]
        ELSE IF FenceHolds(j)
             THEN [jobs[j] EXCEPT !.expires = fence[RepoOf[j]].expires]
             ELSE EndLease(jobs[j], jobs[j].attempts < jobs[j].max_attempts)]

ClaimBegin(w) ==
    /\ pc[w] = "idle" /\ lock = Unlocked
    /\ lock' = <<w, "main">>
    /\ \E t \in Samples : txn' = Recovered(t)
    /\ pc' = [pc EXCEPT ![w] = "select"]
    /\ UNCHANGED <<fenceVars, jobs, policy, plan, beat, lease, count, lastStage,
                   operator, backup, spent>>

\* The rows the SELECT returns, in the order of Rank.  available_at is left
\* out: the dispatcher never asks for a delay.
Candidates ==
    LET all == {j \in Jobs : txn[j].state = "queued" /\ PolicyOf(j).enabled}
    IN {j \in all : Cardinality({k \in all : Rank[k] < Rank[j]}) < ScanLimit}

\* The payload still fits the policy of this moment.
Admissible(j) == ProfileOf[j] \in PolicyOf(j).allowed

ActiveIn(table, ws) == {k \in Jobs : table[k].state \in Active /\ WorkspaceOf[RepoOf[k]] = ws}

\* Mutation: claim_next counts the workspace, not the repository.
HasRoomInWorkspace(j) ==
    Cardinality(ActiveIn(txn, WorkspaceOf[RepoOf[j]])) < PolicyOf(j).max_running

\* Mutation: max_running is off by one.
HasAlmostCapacity(j) ==
    /\ Cardinality(ActiveIn(txn, WorkspaceOf[RepoOf[j]])) <= PolicyOf(j).max_running
    /\ \A k \in Jobs : RepoOf[k] = RepoOf[j] => txn[k].state \notin Active

HasCapacity(j) ==
    /\ Cardinality(ActiveIn(txn, WorkspaceOf[RepoOf[j]])) < PolicyOf(j).max_running
    /\ \A k \in Jobs : RepoOf[k] = RepoOf[j] => txn[k].state \notin Active

\* Each acquire of the scan samples the clock anew.
Claimable(j, t) ==
    j \in Candidates /\ Admissible(j) /\ HasCapacity(j) /\ Acquirable(RepoOf[j], t)

\* The scan fails the inadmissible candidates it passes on the way.
Scanned(passed) ==
    [k \in Jobs |-> IF k \in passed /\ ~Admissible(k)
                    THEN [txn[k] EXCEPT !.state = "failed"] ELSE txn[k]]

LeasedWith(row, f) ==
    [row EXCEPT !.state = "leased", !.attempts = @ + 1,
                !.token = f.token, !.expires = f.expires, !.epoch = f.epoch]

ClaimSelect(w) ==
    /\ pc[w] = "select"
    /\ \E t \in Samples, j \in Jobs :
        /\ Claimable(j, t)
        /\ \A k \in Jobs : Rank[k] < Rank[j] => \E u \in Samples : ~Claimable(k, u)
        /\ Acquire(RepoOf[j], j, ClaimLease, t)
        /\ LET row == fence'[RepoOf[j]]
           IN /\ txn' = [Scanned({k \in Candidates : Rank[k] < Rank[j]})
                            EXCEPT ![j] = LeasedWith(@, row)]
              /\ lease' = [lease EXCEPT ![w] = [job |-> j, token |-> row.token,
                                                epoch |-> row.epoch, expires |-> 0]]
    /\ pc' = [pc EXCEPT ![w] = "commit"]
    /\ UNCHANGED <<jobs, policy, plan, lock, beat, count, lastStage, operator, backup, spent>>

ClaimNothing(w) ==
    /\ pc[w] = "select"
    /\ \A j \in Jobs : \E u \in Samples : ~Claimable(j, u)
    /\ txn' = Scanned(Candidates)
    /\ pc' = [pc EXCEPT ![w] = "commit"]
    /\ UNCHANGED <<fenceVars, jobs, policy, plan, lock, beat, lease, count, lastStage,
                   operator, backup, spent>>

ClaimCommit(w) ==
    /\ pc[w] = "commit"
    /\ jobs' = txn
    /\ txn' = Blank
    /\ lock' = Unlocked
    /\ pc' = [pc EXCEPT ![w] = IF lease[w] = NoLease THEN "idle" ELSE "leased"]
    /\ UNCHANGED <<fenceVars, policy, plan, beat, lease, count, lastStage,
                   operator, backup, spent>>

\* An exception in the claim: ROLLBACK, then give the fence back.
ClaimAbort(w) ==
    /\ pc[w] \in {"select", "commit"} /\ Spend("faults", MaxFaults)
    /\ txn' = Blank
    /\ lock' = Unlocked
    /\ pc' = [pc EXCEPT ![w] = IF lease[w] = NoLease THEN "idle" ELSE "release"]
    /\ UNCHANGED <<fenceVars, jobs, policy, plan, beat, lease, count, lastStage,
                   operator, backup>>

-----------------------------------------------------------------------------
\* Mutation: _leased_row forgets whose token it is.
LeasedRowOfAnybody(w, states) ==
    LET j == lease[w].job
    IN jobs[j].state \in states /\ jobs[j].expires > now /\ FenceHolds(j)

\* _leased_row: the row, its lease and the external fence all belong to w.
LeasedRow(w, states) ==
    LET j == lease[w].job
    IN /\ jobs[j].state \in states
       /\ jobs[j].expires > now
       /\ jobs[j].token = lease[w].token
       /\ jobs[j].epoch # 0
       /\ Validated(RepoOf[j], j, jobs[j].epoch, lease[w].token)

\* Mutation: _leased_row without BEGIN IMMEDIATE.
CheckOutsideTransaction(w, states, held, failed) ==
    /\ lock = Unlocked
    /\ pc' = [pc EXCEPT ![w] = IF LeasedRow(w, states) THEN held ELSE failed]
    /\ UNCHANGED <<fenceVars, jobs, policy, plan, lock, txn, beat, lease, count, lastStage,
                   operator, backup, spent>>

\* BEGIN IMMEDIATE, then _leased_row: on success go on with the lock held,
\* on LeaseError to the exception handler.
Check(w, states, held, failed) ==
    /\ lock = Unlocked
    /\ IF LeasedRow(w, states)
       THEN lock' = <<w, "main">> /\ pc' = [pc EXCEPT ![w] = held]
       ELSE UNCHANGED lock /\ pc' = [pc EXCEPT ![w] = failed]
    /\ UNCHANGED <<fenceVars, jobs, policy, plan, txn, beat, lease, count, lastStage,
                   operator, backup, spent>>

\* UPDATE of the job's row and COMMIT.
Commit(w, row, next) ==
    /\ jobs' = [jobs EXCEPT ![lease[w].job] = row]
    /\ lock' = Unlocked
    /\ pc' = [pc EXCEPT ![w] = next]
    /\ UNCHANGED <<fenceVars, policy, plan, txn, lease, count, lastStage, operator, backup, spent>>

(***************************************************************************)
(* heartbeat, called once by run_once between claim and start ("leased")   *)
(* and then by the heartbeat thread: check, renew the fence, which commits *)
(* in the other database, then copy the new expiry into the queue.         *)
(***************************************************************************)
\* Mutation: the failures of the two threads are swapped.
BeatFailsSwapped(w) ==
    IF pc[w] = "leased"
    THEN pc' = [pc EXCEPT ![w] = "lost"] /\ beat' = [beat EXCEPT ![w] = "off"]
    ELSE beat' = [beat EXCEPT ![w] = "failing"] /\ UNCHANGED pc

BeatFails(w) ==
    IF pc[w] = "leased"
    THEN pc' = [pc EXCEPT ![w] = "failing"] /\ beat' = [beat EXCEPT ![w] = "off"]
    ELSE beat' = [beat EXCEPT ![w] = "lost"] /\ UNCHANGED pc

HeartbeatCheck(w) ==
    /\ lock = Unlocked
    /\ \/ pc[w] = "leased" /\ beat[w] = "off"
       \/ beat[w] = "on" /\ count[w].beats < MaxBeats
    /\ IF LeasedRow(w, Active)
       THEN lock' = <<w, "beat">> /\ beat' = [beat EXCEPT ![w] = "checked"] /\ UNCHANGED pc
       ELSE BeatFails(w) /\ UNCHANGED lock
    /\ UNCHANGED <<fenceVars, jobs, policy, plan, txn, lease, count, lastStage,
                   operator, backup, spent>>

HeartbeatRenew(w) ==
    LET j == lease[w].job
        r == RepoOf[j]
    IN /\ beat[w] = "checked"
       /\ \E t \in Samples : Renew(r, j, jobs[j].epoch, lease[w].token, BeatLease, t)
       /\ lease' = [lease EXCEPT ![w].expires = fence'[r].expires]
       /\ beat' = [beat EXCEPT ![w] = "renewed"]
       /\ UNCHANGED <<jobs, policy, plan, lock, txn, pc, count, lastStage, operator, backup, spent>>

\* Mutation: heartbeat forgets the ROLLBACK.
HeartbeatStuck(w) ==
    /\ beat[w] = "checked"
    /\ ~Validated(RepoOf[lease[w].job], lease[w].job, jobs[lease[w].job].epoch, lease[w].token)
    /\ BeatFails(w)
    /\ UNCHANGED <<fenceVars, jobs, policy, plan, lock, txn, lease, count, lastStage,
                   operator, backup, spent>>

\* The fence was lost between the two checks: ROLLBACK.
HeartbeatDenied(w) ==
    /\ beat[w] = "checked"
    /\ ~Validated(RepoOf[lease[w].job], lease[w].job, jobs[lease[w].job].epoch, lease[w].token)
    /\ lock' = Unlocked
    /\ BeatFails(w)
    /\ UNCHANGED <<fenceVars, jobs, policy, plan, txn, lease, count, lastStage,
                   operator, backup, spent>>

HeartbeatCommit(w) ==
    /\ beat[w] = "renewed"
    /\ jobs' = [jobs EXCEPT ![lease[w].job].expires = lease[w].expires]
    /\ lease' = [lease EXCEPT ![w].expires = 0]
    /\ lock' = Unlocked
    /\ IF pc[w] = "leased"
       THEN /\ pc' = [pc EXCEPT ![w] = "start"] /\ beat' = [beat EXCEPT ![w] = "off"]
            /\ UNCHANGED count
       ELSE /\ beat' = [beat EXCEPT ![w] = "on"] /\ count' = [count EXCEPT ![w].beats = @ + 1]
            /\ UNCHANGED pc
    /\ UNCHANGED <<fenceVars, policy, plan, txn, lastStage, operator, backup, spent>>

\* The queue cannot be written after the fence was renewed.
HeartbeatError(w) ==
    /\ beat[w] = "renewed" /\ Spend("faults", MaxFaults)
    /\ lease' = [lease EXCEPT ![w].expires = 0]
    /\ lock' = Unlocked
    /\ BeatFails(w)
    /\ UNCHANGED <<fenceVars, jobs, policy, plan, txn, count, lastStage, operator, backup>>

-----------------------------------------------------------------------------
(***************************************************************************)
(* run_once after the claim.                                               *)
(***************************************************************************)
StartCheck(w) == pc[w] = "start" /\ Check(w, {"leased"}, "starting", "failing")

StartCommit(w) ==
    /\ pc[w] = "starting"
    /\ Commit(w, [jobs[lease[w].job] EXCEPT !.state = "running"], "running")
    /\ beat' = [beat EXCEPT ![w] = "on"]

\* execution_guard before a stage: reads only, holds nothing afterwards.
Guard(w) ==
    /\ pc[w] = "running"
    /\ pc' = [pc EXCEPT ![w] = IF beat[w] # "lost" /\ LeasedRow(w, Active)
                               THEN "authorised" ELSE "failing"]
    /\ UNCHANGED <<fenceVars, jobs, policy, plan, lock, txn, beat, lease, count, lastStage,
                   operator, backup, spent>>

\* A guarded stage of the pipeline changes the repository or its state.
Stage(w) ==
    /\ pc[w] = "authorised" /\ count[w].stages < MaxStages
    /\ lastStage' = [lastStage EXCEPT ![RepoOf[lease[w].job]] = lease[w].epoch]
    /\ count' = [count EXCEPT ![w].stages = @ + 1]
    /\ pc' = [pc EXCEPT ![w] = "running"]
    /\ UNCHANGED <<fenceVars, jobs, policy, plan, lock, txn, beat, lease,
                   operator, backup, spent>>

\* The repository binding does not validate, or the pipeline raises.
PipelineFails(w) ==
    /\ pc[w] = "authorised" \/ (pc[w] = "leased" /\ beat[w] = "off")
    /\ pc' = [pc EXCEPT ![w] = "failing"]
    /\ UNCHANGED <<fenceVars, jobs, policy, plan, lock, txn, beat, lease, count, lastStage,
                   operator, backup, spent>>

CompleteCheck(w) == pc[w] = "authorised" /\ Check(w, {"running"}, "completing", "failing")

CompleteCommit(w) ==
    /\ pc[w] = "completing"
    /\ Commit(w, [jobs[lease[w].job] EXCEPT !.state = "succeeded", !.token = 0, !.expires = 0],
              "release")
    /\ UNCHANGED beat

FailCheck(w) == pc[w] = "failing" /\ Check(w, Active, "closing", "join")

FailCommit(w) ==
    /\ pc[w] = "closing"
    /\ \E retryable \in Retryable :
          LET row == jobs[lease[w].job]
          IN Commit(w, EndLease(row, retryable /\ row.attempts < row.max_attempts), "release")
    /\ UNCHANGED beat

\* COMMIT fails: start_job and complete_job end in the exception handler,
\* fail_job in QueueError.
CommitError(w) ==
    /\ pc[w] \in {"starting", "completing", "closing"} /\ Spend("faults", MaxFaults)
    /\ lock' = Unlocked
    /\ pc' = [pc EXCEPT ![w] = IF pc[w] = "closing" THEN "join" ELSE "failing"]
    /\ UNCHANGED <<fenceVars, jobs, policy, plan, txn, beat, lease, count, lastStage,
                   operator, backup>>

\* _release_terminal_fence, and the release after a claim was rolled back:
\* FenceLost is swallowed.
ReleaseFence(w) ==
    LET l == lease[w]
        r == RepoOf[l.job]
    IN /\ pc[w] = "release"
       /\ IF Validated(r, l.job, l.epoch, l.token)
          THEN Release(r, l.job, l.epoch, l.token)
          ELSE UNCHANGED fenceVars
       /\ pc' = [pc EXCEPT ![w] = "join"]
       /\ UNCHANGED <<jobs, policy, plan, lock, txn, beat, lease, count, lastStage,
                      operator, backup, spent>>

Reset(w) ==
    /\ pc' = [pc EXCEPT ![w] = "idle"]
    /\ beat' = [beat EXCEPT ![w] = "off"]
    /\ lease' = [lease EXCEPT ![w] = NoLease]
    /\ count' = [count EXCEPT ![w] = Idle]

\* finally: stop the heartbeat thread and wait for the beat in progress.
Join(w) ==
    /\ pc[w] = "join" /\ beat[w] \notin {"checked", "renewed"}
    /\ Reset(w)
    /\ UNCHANGED <<fenceVars, jobs, policy, plan, lock, txn, lastStage, operator, backup, spent>>

\* The process stops: SQLite rolls its transaction back, a new one starts idle.
Crash(w) ==
    /\ pc[w] # "idle" /\ Spend("faults", MaxFaults)
    /\ Reset(w)
    /\ IF lock \in {<<w, "main">>, <<w, "beat">>}
       THEN lock' = Unlocked /\ txn' = Blank
       ELSE UNCHANGED <<lock, txn>>
    /\ UNCHANGED <<fenceVars, jobs, policy, plan, lastStage, operator, backup>>

-----------------------------------------------------------------------------
(***************************************************************************)
(* force_expire_fence: the operator confirms the active epoch and its job; *)
(* the store then compares the epoch once more.                            *)
(***************************************************************************)
OperatorConfirm(r) ==
    /\ operator[r] = 0 /\ Live(r) /\ Spend("forced", MaxForced)
    /\ operator' = [operator EXCEPT ![r] = fence[r].epoch]
    /\ UNCHANGED <<fenceVars, jobs, policy, plan, lock, txn, pc, beat, lease, count, lastStage, backup>>

OperatorExpire(r) ==
    /\ operator[r] # 0
    /\ IF fence[r].epoch = operator[r] THEN ForceExpire(r, operator[r]) ELSE UNCHANGED fenceVars
    /\ operator' = [operator EXCEPT ![r] = 0]
    /\ UNCHANGED <<jobs, policy, plan, lock, txn, pc, beat, lease, count, lastStage, backup, spent>>

\* The queue database is copied, and later put back without the fence
\* database ("a restored queue database", fencing.py).
TakeBackup ==
    /\ MaxRestores > 0 /\ lock = Unlocked /\ backup = Blank /\ jobs # Blank
    /\ backup' = jobs
    /\ UNCHANGED <<fenceVars, jobs, policy, plan, lock, txn, pc, beat, lease, count, lastStage,
                   operator, spent>>

RestoreQueue ==
    /\ backup # Blank /\ lock = Unlocked /\ Spend("restores", MaxRestores)
    /\ jobs' = backup
    /\ UNCHANGED <<fenceVars, policy, plan, lock, txn, pc, beat, lease, count, lastStage,
                   operator, backup>>

\* The clock moves while some expiry lies ahead; later instants all look alike.
Pass ==
    /\ \/ \E r \in Repos : fence[r].expires > now
       \/ \E j \in Jobs : jobs[j].expires > now
    /\ Tick
    /\ UNCHANGED queueVars

Claim(w) == ClaimBegin(w) \/ ClaimSelect(w) \/ ClaimNothing(w) \/ ClaimCommit(w)
Heartbeat(w) ==
    HeartbeatCheck(w) \/ HeartbeatRenew(w) \/ HeartbeatDenied(w) \/ HeartbeatCommit(w)
Run(w) ==
    \/ StartCheck(w) \/ StartCommit(w) \/ Guard(w) \/ Stage(w)
    \/ CompleteCheck(w) \/ CompleteCommit(w) \/ FailCheck(w) \/ FailCommit(w)
    \/ ReleaseFence(w) \/ Join(w)
Fault(w) == ClaimAbort(w) \/ HeartbeatError(w) \/ PipelineFails(w) \/ CommitError(w) \/ Crash(w)

Next ==
    \/ \E j \in Jobs : PrepareAdmission(j) \/ Enqueue(j) \/ CancelJob(j)
    \/ \E ws \in Workspaces, p \in Policies : SetPolicy(ws, p)
    \/ \E w \in Workers : Claim(w) \/ Heartbeat(w) \/ Run(w) \/ Fault(w)
    \/ \E r \in Repos : OperatorConfirm(r) \/ OperatorExpire(r)
    \/ TakeBackup \/ RestoreQueue
    \/ Pass

Spec == Init /\ [][Next]_vars

(***************************************************************************)
(* Fairness.  The runner polls (queue_cli's worker loop), every step of a  *)
(* claimed job is bounded by timeouts, and the clock moves.  Nothing makes *)
(* a fault, a cancellation or an operator act.                             *)
(***************************************************************************)
Fairness ==
    /\ WF_vars(Pass)
    /\ \A w \in Workers : WF_vars(Claim(w)) /\ WF_vars(Heartbeat(w)) /\ WF_vars(Run(w))

FairSpec == Spec /\ Fairness

-----------------------------------------------------------------------------
\* The databases and the processes hold well-formed values.
TypeOK ==
    /\ FenceTypeOK
    /\ jobs \in [Jobs -> Rows] /\ txn \in [Jobs -> Rows] /\ backup \in [Jobs -> Rows]
    /\ policy \in [Workspaces -> Policies]
    /\ plan \in [Jobs -> Policies \cup {NoPolicy}]
    /\ lock \in (Workers \X {"main", "beat"}) \cup {Unlocked}
    /\ pc \in [Workers -> {"idle", "select", "commit", "leased", "start", "starting", "running",
                           "authorised", "completing", "failing", "closing", "release", "join"}]
    /\ beat \in [Workers -> {"off", "on", "checked", "renewed", "lost"}]
    /\ lease \in [Workers -> Leases \cup {NoLease}]
    /\ count \in [Workers -> [beats : Nat, stages : Nat]]
    /\ lastStage \in [Repos -> Nat] /\ operator \in [Repos -> Nat]
    /\ spent \in [faults : Nat, forced : Nat, policies : Nat, restores : Nat]

Claimed == {"leased", "start", "starting", "running", "authorised", "completing",
            "failing", "closing", "release", "join"}
InTransaction == {"select", "commit", "starting", "completing", "closing"}
Beating == {"checked", "renewed"}

Disciplined(w) ==
    /\ pc[w] \in Claimed => lease[w] # NoLease
    /\ pc[w] \in {"idle", "select"} => lease[w] = NoLease
    /\ beat[w] # "off" => pc[w] \in Claimed
    /\ pc[w] \in {"start", "starting"} => beat[w] = "off"
    /\ pc[w] = "leased" => beat[w] \in {"off"} \cup Beating
    /\ pc[w] \in InTransaction <=> lock = <<w, "main">>
    /\ beat[w] \in Beating <=> lock = <<w, "beat">>

\* The queue's write lock is held exactly by the thread that is between BEGIN
\* IMMEDIATE and COMMIT, and every thread past its claim has its JobLease: no
\* path through an exception, a lost fence or a crash leaves the lock behind
\* or enters a transaction without it (_leased_row's ROLLBACKs, heartbeat).
LockDiscipline == \A w \in Workers : Disciplined(w)

\* At most one leased or running job per repository, in the committed table
\* and in the one a claim is about to commit (claim_next's count and the
\* index idx_jobs_active_repository).
OneActivePerRepo ==
    \A i, j \in Jobs :
        i # j /\ RepoOf[i] = RepoOf[j]
            => /\ ~(jobs[i].state \in Active /\ jobs[j].state \in Active)
               /\ ~(txn[i].state \in Active /\ txn[j].state \in Active)

\* What _leased_row has checked stays true until the transaction commits: the
\* row is still active under the caller's token, and its epoch is still the
\* newest one of the repository.  The fence may expire or be revoked meanwhile,
\* but it cannot be given to another worker.
Checked(w) ==
    LET j == lease[w].job
    IN /\ jobs[j].state \in Active
       /\ pc[w] = "starting" => jobs[j].state = "leased"
       /\ pc[w] = "completing" => jobs[j].state = "running"
       /\ jobs[j].token = lease[w].token
       /\ jobs[j].epoch = fence[RepoOf[j]].epoch

CheckHoldsUntilCommit ==
    \A w \in Workers :
        pc[w] \in {"starting", "completing", "closing"} \/ beat[w] \in Beating => Checked(w)

\* As long as a job's queue lease runs and the queue has not been restored from a copy, no
\* newer epoch has been issued for its repository: a revoked or expired fence alone does not
\* let a second worker in (claim_next, _recover_expired_leases, force_expire_fence).
RunningLeaseIsNewest ==
    spent.restores = 0 =>
        \A j \in Jobs : jobs[j].state \in Active /\ jobs[j].expires > now
            => jobs[j].epoch = fence[RepoOf[j]].epoch

\* A job is never tried more often than the policy it was admitted under
\* allows, across crashes, expiries and retries (attempts, max_attempts).
AttemptsBounded == \A j \in Jobs : jobs[j].attempts <= jobs[j].max_attempts

\* A job becomes succeeded only while its own epoch is the newest one of the
\* repository: a superseded worker cannot report success, although the fence
\* is checked some time before the queue commits (complete_job).
SuccessUnderNewestEpoch ==
    [][\A j \in Jobs : jobs[j].state = "running" /\ jobs'[j].state = "succeeded"
            => fence[RepoOf[j]].epoch = jobs[j].epoch]_vars

\* Once its repository was given to a newer epoch a worker stays superseded and passes no
\* further check: it carries out at most the one stage it was authorised for, and neither
\* starts, renews nor ends a job, not even if another worker's attempt of the same job is
\* running or the queue is restored (execution_guard and the callers of _leased_row).
Superseded(w) == lease[w] # NoLease /\ fence[RepoOf[lease[w].job]].epoch # lease[w].epoch

SupersededWorkersStop ==
    [][\A w \in Workers : Superseded(w) =>
          /\ Superseded(w)' \/ lease'[w] = NoLease
          /\ pc'[w] \in {"starting", "authorised", "completing", "closing"} => pc'[w] = pc[w]
          /\ beat'[w] \in Beating => beat'[w] = beat[w]]_vars

\* A job whose fence is still live is never taken from its worker because the
\* queue's copy of the expiry ran out: only the worker itself ends its lease
\* (_recover_expired_leases, README.md "aktiver externer Fence").
LiveFenceKeepsItsJob ==
    [][\A j \in Jobs :
          /\ jobs[j].state \in Active /\ jobs'[j].epoch # jobs[j].epoch
          /\ \A w \in Workers : ~(pc[w] = "closing" /\ lease[w] # NoLease /\ lease[w].job = j)
          /\ ~RestoreQueue
          => ~FenceHolds(j)]_vars

\* A job that has ended stays as it ended; only a restored database brings it
\* back (complete_job, fail_job, cancel_job, the scan of claim_next).
TerminalIsFinal ==
    [][RestoreQueue \/ \A j \in Jobs : jobs[j].state \in Terminal => jobs'[j] = jobs[j]]_vars

\* When a job is leased, the workspace runs no more jobs than the policy in
\* force at that moment allows (claim_next's count, after its own recovery).
CapacityRespected ==
    [][\A w \in Workers, ws \in Workspaces :
          ClaimCommit(w) /\ lease[w] # NoLease /\ WorkspaceOf[RepoOf[lease[w].job]] = ws
            => Cardinality(ActiveIn(jobs', ws)) <= policy[ws].max_running]_vars

\* Every queued job ends, whatever crashes, lost fences, failing transactions
\* and policy changes happen on the way, unless its workspace is disabled: the
\* pollers recover every expired lease and nothing keeps the write lock
\* (claim_next, _recover_expired_leases, QueuedWorkerDispatcher.run_once).
QueuedJobsEnd ==
    \A j \in Jobs : jobs[j].state = "queued"
        ~> jobs[j].state \in Terminal \/ ~PolicyOf(j).enabled

-----------------------------------------------------------------------------
\* What the documentation says and the code does not guarantee.

\* README.md: "Ein verlorener Fence kann keinen erfolgreichen Jobstatus
\* erzeugen": a job becomes succeeded only while its fence is live
\* (complete_job).
NoSuccessAfterFenceLoss ==
    [][\A j \in Jobs : jobs[j].state = "running" /\ jobs'[j].state = "succeeded"
            => FenceHolds(j)]_vars

\* A worker of an older epoch never changes the repository after one of a newer epoch did
\* (execution_guard and the stage it protects).  The code does not promise this and it does
\* not hold, which README.md records: a lease can end between the guard and its stage.
StagesInEpochOrder == [][\A r \in Repos : lastStage'[r] >= lastStage[r]]_vars
=============================================================================
