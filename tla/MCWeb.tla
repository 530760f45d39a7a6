-------------------------------- MODULE MCWeb --------------------------------
(***************************************************************************)
(* The parts of the web server for TLC.  They meet in a request handler    *)
(* but share no state with each other, so that a behaviour of this module  *)
(* is one of one part: which names it, and the others stay as they start.  *)
(***************************************************************************)
EXTENDS RuntimeCache, AuthState, LoginLimiter, ProviderLimiter, AgentJobs, Accounts, TLC

CONSTANTS a1, a2, c1, c2

VARIABLE which

\* Two command lines and the server have one request each.
OwnProcess == [r \in Requests |-> r]

\* Containers, threads, log-ins and requests are named alike, and so are users and POSTs.
WebSymmetry == Permutations({a1, a2}) \cup Permutations({c1, c2})

WebVars == <<cacheVars, authStateVars, loginVars, limiterVars, agentJobVars, accountVars, which>>

WebInit ==
    /\ CacheInit /\ AuthStateInit /\ LoginInit /\ LimiterInit /\ AgentJobsInit /\ AccountsInit
    /\ which \in {"cache", "authState", "login", "limiter", "agentJobs", "accounts"}

WebNext ==
    /\ UNCHANGED which
    /\ \/ /\ which = "cache" /\ CacheNext
          /\ UNCHANGED <<authStateVars, loginVars, limiterVars, agentJobVars, accountVars>>
       \/ /\ which = "authState" /\ AuthStateNext
          /\ UNCHANGED <<cacheVars, loginVars, limiterVars, agentJobVars, accountVars>>
       \/ /\ which = "login" /\ LoginNext
          /\ UNCHANGED <<cacheVars, authStateVars, limiterVars, agentJobVars, accountVars>>
       \/ /\ which = "limiter" /\ LimiterNext
          /\ UNCHANGED <<cacheVars, authStateVars, loginVars, agentJobVars, accountVars>>
       \/ /\ which = "agentJobs" /\ AgentJobsNext
          /\ walk.stage \notin {"done", "refused"}   \* the behaviour ends with the walk
          /\ UNCHANGED <<cacheVars, authStateVars, loginVars, limiterVars, accountVars>>
       \/ /\ which = "accounts" /\ AccountsNext
          /\ UNCHANGED <<cacheVars, authStateVars, loginVars, limiterVars, agentJobVars>>

WebSpec == WebInit /\ [][WebNext]_WebVars

-----------------------------------------------------------------------------
(* What each part promises, with its types. *)

\* A runtime is open as long as somebody has a lease on it, is never open twice, and is
\* closed when nobody is left who would close it (WorkspaceRuntimeManager).
RuntimesHold ==
    which = "cache" =>
        /\ CacheTypeOK
        /\ LeasedRuntimeIsOpen /\ OpenRuntimesAreCached /\ ClosedManagerKeepsNothing

\* No change of the accounts that was answered is lost, whoever else writes the snapshot and
\* whatever replies are lost, and containers that start together leave one owner (AuthState).
AuthStateHolds == which = "authState" => AuthStateTypeOK /\ AcknowledgedIsDurable /\ OneOwner

\* Neither passwords nor provider calls exceed their limit by more than what the steps
\* between reading the clock, counting and recording allow for.
RatesHold ==
    /\ which = "login" => LoginTypeOK /\ TriesAreBounded
    /\ which = "limiter" => LimiterTypeOK /\ WindowIsBounded

\* An answered submission is never lost, made twice or missed by a client that lists its
\* jobs (the agent API's POST and GET /api/v1/jobs).
SubmissionsHold ==
    which = "agentJobs" => AgentJobsTypeOK /\ SubmittedOnce /\ WalkSeesEveryJobOnce

\* What one request has read and another has changed since leaves no session or agent
\* without its membership, and the limits on agents and tokens as good as kept (AuthStore).
AccountsHold == which = "accounts" => AccountsTypeOK /\ JoinsComplete /\ LimitsNearlyHold
=============================================================================
