------------------------------ MODULE AgentJobs ------------------------------
(***************************************************************************)
(* The jobs of an external agent (tankai/web/server.py, _do_agent_post and *)
(* _do_agent_get; tankai/web/auth.py, grants and their pages).             *)
(*                                                                         *)
(* A job lives in the queue's database and the agent's grant for it in the *)
(* auth database.  A submission writes the one, then the other, then       *)
(* answers; it may end after any of them, and the client then submits with *)
(* the same idempotency key again.  A client walks the list of its jobs    *)
(* page by page while jobs are submitted and change their state.           *)
(*                                                                         *)
(* Idempotency keys are numbered in the order of their first use.  Job     *)
(* identifiers are random: a new job may take any free one.  Grants        *)
(* made in the same instant have the same created_at.  A page is a set of  *)
(* jobs: their order in it is the one of the list (Before).                *)
(***************************************************************************)
EXTENDS Naturals, FiniteSets

CONSTANTS Submissions,  \* the request threads that submit
          MaxKeys,      \* bound on the idempotency keys the client uses
          JobIds,       \* job_id, in the order of the identifiers
          Repositories,
          NoRepository,
          Filters,      \* the filters asked for: "all", "terminal", "live" or a state
          PageLimit,    \* limit of the query
          ScanLimit,    \* _EXTERNAL_JOB_LIST_MAX_LIMIT
          MaxInstant    \* bound on the instants of grants

ASSUME AgentJobsAssumption ==
    /\ JobIds \subseteq Nat \ {0}
    /\ NoRepository \notin Repositories /\ MaxKeys \in Nat
    /\ PageLimit \in Nat \ {0} /\ ScanLimit \in Nat \ {0} /\ MaxInstant \in Nat \ {0}

VARIABLES jobs,         \* development_jobs: key, repository and state
          instant,      \* the time
          grants,       \* agent_job_grants.created_at, 0 without a grant
          submitting,   \* the job each submission has enqueued or found, 0 if none
          walk          \* a client that lists its jobs

agentJobVars == <<jobs, instant, grants, submitting, walk>>

\* "ended": succeeded, failed or cancelled, which nothing here tells apart.
Terminal == {"ended"}
JobStates == {"queued", "running"} \cup Terminal

NoSuchJob == [key |-> 0, repository |-> NoRepository, state |-> "none"]
Existing == {j \in JobIds : jobs[j] # NoSuchJob}

\* The keys used so far, and the next one.
Keys == {k \in 1..MaxKeys : k = 1 \/ \E j \in Existing : jobs[j].key >= k - 1}

\* A walk: its filter and repositories, the cursor of the next page and of the scan in it,
\* the jobs of the page and of the pages before; again: those the client was sent more than
\* once; due: what has matched from its start on.
NoWalk == [stage |-> "none", filter |-> "all", repositories |-> {}, cursor |-> 0,
           scan |-> 0, page |-> {}, seen |-> {}, again |-> {}, due |-> {}]

AgentJobsInit ==
    /\ jobs = [j \in JobIds |-> NoSuchJob]
    /\ instant = 1
    /\ grants = [j \in JobIds |-> 0]
    /\ submitting = [s \in Submissions |-> 0]
    /\ walk = NoWalk

(***************************************************************************)
(* POST /api/v1/jobs                                                       *)
(***************************************************************************)

\* enqueue_with_outcome: the job of an earlier submission with this key.
Replayed(k) == {j \in Existing : jobs[j].key = k}

\* A key that has been used for something else is refused.
Enqueued(s, k, r) ==
    /\ submitting[s] = 0
    /\ \/ /\ Replayed(k) = {}
          /\ \E j \in JobIds \ Existing :
                /\ jobs' = [jobs EXCEPT ![j] = [key |-> k, repository |-> r, state |-> "queued"]]
                /\ submitting' = [submitting EXCEPT ![s] = j]
       \/ \E j \in Replayed(k) :
             /\ jobs[j].repository = r
             /\ submitting' = [submitting EXCEPT ![s] = j]
             /\ UNCHANGED jobs
    /\ UNCHANGED <<instant, grants, walk>>

\* grant_agent_job: INSERT OR IGNORE.  Then 202, which may not arrive.
GrantJob(s) ==
    /\ submitting[s] # 0
    /\ grants' = [grants EXCEPT ![submitting[s]] = IF @ = 0 THEN instant ELSE @]
    /\ submitting' = [submitting EXCEPT ![s] = 0]
    /\ UNCHANGED <<jobs, instant, walk>>

\* grant_agent_job raises, or the process ends before it: a job without a grant.
SubmissionBreaks(s) ==
    /\ submitting[s] # 0
    /\ submitting' = [submitting EXCEPT ![s] = 0]
    /\ UNCHANGED <<jobs, instant, grants, walk>>

(***************************************************************************)
(* The queue, and POST /api/v1/jobs/{id}/cancel                            *)
(***************************************************************************)
Matching(f, state) ==
    CASE f = "all"      -> TRUE
      [] f = "terminal" -> state \in Terminal
      [] f = "live"     -> state \notin Terminal
      [] OTHER          -> state = f

\* A job goes to another state; the walk is no longer due a job that its filter excludes.
MoveTo(j, state) ==
    /\ jobs' = [jobs EXCEPT ![j].state = state]
    /\ walk' = IF Matching(walk.filter, state) THEN walk ELSE [walk EXCEPT !.due = @ \ {j}]

\* A worker claims the job, finishes it, or gives it back.
JobMoves(j) ==
    /\ \/ jobs[j].state = "queued" /\ MoveTo(j, "running")
       \/ jobs[j].state = "running" /\ \E to \in {"queued", "ended"} : MoveTo(j, to)
    /\ UNCHANGED <<instant, grants, submitting>>

\* cancel_job_with_outcome, for a job that the agent has a grant for: 409 while it runs or
\* has ended, a replay when it is cancelled.  A grant is never withdrawn, so that the check
\* in a transaction before still counts.
CancelAgentJob(j) ==
    /\ j \in Existing /\ grants[j] # 0
    /\ jobs[j].state = "queued" /\ MoveTo(j, "ended")
    /\ UNCHANGED <<instant, grants, submitting>>

\* Time matters to the grants only.
NextInstant ==
    /\ instant < MaxInstant /\ \E j \in JobIds : grants[j] = instant
    /\ instant' = instant + 1
    /\ UNCHANGED <<jobs, grants, submitting, walk>>

(***************************************************************************)
(* GET /api/v1/jobs                                                        *)
(***************************************************************************)
Listable(R) == {j \in Existing : grants[j] # 0 /\ jobs[j].repository \in R}

Before(i, j) == grants[i] > grants[j] \/ (grants[i] = grants[j] /\ i < j)

\* Mutation: the cursor is compared by time alone.
AfterCursorByTime(c, R) == {j \in Listable(R) : c = 0 \/ grants[j] < grants[c]}

\* agent_job_page: the rows behind the cursor, newest first, then by identifier.
AfterCursor(c, R) == {j \in Listable(R) : c = 0 \/ Before(c, j)}

\* ORDER BY ... LIMIT: the first n of the list, and the last of a set of jobs.
FirstOf(S, n) == {j \in S : Cardinality({i \in S : Before(i, j)}) < n}
LastOf(S) == CHOOSE j \in S : \A i \in S \ {j} : Before(i, j)

\* AgentJobPage: job_ids and next_cursor, which is 0 on the last page.
PageOf(c, R, limit) ==
    LET rows == AfterCursor(c, R)
        ids == FirstOf(rows, limit)
    IN  [ids |-> ids, next |-> IF Cardinality(rows) > limit THEN LastOf(ids) ELSE 0]

\* The first request, without a cursor.
StartWalk(f, R) ==
    /\ walk.stage = "none"
    /\ walk' = [NoWalk EXCEPT !.stage = "next", !.filter = f, !.repositories = R,
                              !.due = {j \in Listable(R) : Matching(f, jobs[j].state)}]
    /\ UNCHANGED <<jobs, instant, grants, submitting>>

\* What an answer with these jobs and this next_cursor makes of the walk.
Answer(w, ids, next) ==
    [w EXCEPT !.stage = IF next = 0 THEN "done" ELSE "next",
              !.cursor = next, !.scan = 0, !.page = {}, !.seen = @ \cup ids,
              !.again = @ \cup (w.seen \cap ids)]

\* Without a filter a page of grants is the answer.
PlainPage ==
    /\ walk.stage = "next" /\ walk.filter = "all"
    /\ LET p == PageOf(walk.cursor, walk.repositories, PageLimit)
       IN  walk' = Answer(walk, p.ids, p.next)
    /\ UNCHANGED <<jobs, instant, grants, submitting>>

\* With one, the job at the cursor must still match: else 400.
BeginScan ==
    /\ walk.stage = "next" /\ walk.filter # "all"
    /\ walk' = IF walk.cursor # 0 /\ ~Matching(walk.filter, jobs[walk.cursor].state)
               THEN [walk EXCEPT !.stage = "refused"]
               ELSE [walk EXCEPT !.stage = "scanning", !.scan = walk.cursor]
    /\ UNCHANGED <<jobs, instant, grants, submitting>>

\* jobs[:limit]
CutPage(found) == FirstOf(found, PageLimit)

\* Pages of grants, and the jobs in them, until one more than limit match or none is left.
ScanPage ==
    /\ walk.stage = "scanning"
    /\ LET p == PageOf(walk.scan, walk.repositories, ScanLimit)
           matches == {j \in p.ids : Matching(walk.filter, jobs[j].state)}
           found == walk.page \cup matches
           w == [walk EXCEPT !.again = @ \cup (walk.page \cap matches)]
       IN  walk' = IF Cardinality(found) > PageLimit
                   THEN Answer(w, CutPage(found), LastOf(CutPage(found)))
                   ELSE IF p.next = 0 THEN Answer(w, found, 0)
                   ELSE [w EXCEPT !.scan = p.next, !.page = found]
    /\ UNCHANGED <<jobs, instant, grants, submitting>>

AgentJobsNext ==
    \/ \E s \in Submissions :
          \/ \E k \in Keys, r \in Repositories : Enqueued(s, k, r)
          \/ GrantJob(s) \/ SubmissionBreaks(s)
    \/ \E j \in JobIds : JobMoves(j) \/ CancelAgentJob(j)
    \/ NextInstant
    \/ \E f \in Filters, R \in (SUBSET Repositories) \ {{}} : StartWalk(f, R)
    \/ PlainPage \/ BeginScan \/ ScanPage

-----------------------------------------------------------------------------
AgentJobsTypeOK ==
    /\ jobs \in [JobIds -> [key : 1..MaxKeys, repository : Repositories, state : JobStates] \cup {NoSuchJob}]
    /\ instant \in 1..MaxInstant
    /\ grants \in [JobIds -> 0..MaxInstant]
    /\ submitting \in [Submissions -> JobIds \cup {0}]
    /\ walk \in [stage : {"none", "next", "scanning", "done", "refused"}, filter : Filters \cup {"all"},
                 repositories : SUBSET Repositories, cursor : JobIds \cup {0},
                 scan : JobIds \cup {0}, page : SUBSET JobIds, seen : SUBSET JobIds,
                 again : SUBSET JobIds, due : SUBSET JobIds]

\* However many attempts at a submission ended half-way, all the attempts with one key have
\* made one job, and whatever is granted exists.
SubmittedOnce ==
    /\ \A i, j \in Existing : jobs[i].key = jobs[j].key => i = j
    /\ \A j \in JobIds : grants[j] # 0 => j \in Existing

\* A client that follows next_cursor to the end has seen every job that was listed when it
\* began and has matched its filter since, and none twice, whatever is submitted and moves
\* in the meantime; a walk of all jobs, or of the ended ones, is never refused half-way.
WalkSeesEveryJobOnce ==
    /\ walk.again = {}
    /\ walk.stage = "done" => walk.due \subseteq walk.seen
    /\ walk.stage = "refused" => walk.filter \notin {"all", "terminal"} \cup Terminal
=============================================================================
