---------------------------- MODULE MCDevelopment ----------------------------
(***************************************************************************)
(* A task for a worker, which may need a second run; a task worked on by   *)
(* hand that writes the same file; and another that depends on the first.  *)
(***************************************************************************)
EXTENDS Development, TLC

CONSTANTS t1, t2, t3, r1, r2

MCTasks == {t1, t2, t3}
MCRuns == {r1, r2}
MCTaskOf == [r \in MCRuns |-> t1]
MCDeps == [t \in MCTasks |-> IF t = t3 THEN {t1} ELSE {}]
MCScope == [t \in MCTasks |-> IF t = t3 THEN {"docs"} ELSE {"auth"}]
MCModuleOf == [t \in MCTasks |-> IF t = t1 THEN "core" ELSE "web"]
MCSecurityTasks == {t1, t2}

\* The two runs of the first task are interchangeable.
MCSymmetry == Permutations(MCRuns)
=============================================================================
