----------------------------- MODULE MCJobQueue -----------------------------
(***************************************************************************)
(* Instances of JobQueue for TLC.  j1 comes before j2 in the scan order.   *)
(***************************************************************************)
EXTENDS JobQueue

CONSTANTS r1, r2, j1, j2, ws, small, large

OneRepo == [j \in Holders |-> r1]
TwoRepos == [j \in Holders |-> IF j = j1 THEN r1 ELSE r2]
OneWorkspace == [r \in Scopes |-> ws]
JobRank == [j \in Holders |-> IF j = j1 THEN 1 ELSE 2]
SmallJobs == [j \in Holders |-> small]
MixedJobs == [j \in Holders |-> IF j = j1 THEN small ELSE large]

Policy(queued, running, attempts, profiles) ==
    [enabled |-> TRUE, max_queued |-> queued, max_running |-> running,
     max_attempts |-> attempts, allowed |-> profiles]

RetryPolicy == {Policy(2, 2, 2, {small})}
OneTryPolicy == {Policy(2, 2, 1, {small})}
ChangingPolicies ==
    {Policy(2, 1, 1, {small, large}), Policy(1, 2, 1, {small}),
                     [Policy(2, 2, 1, {small, large}) EXCEPT !.enabled = FALSE]}
=============================================================================
