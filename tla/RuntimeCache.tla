---------------------------- MODULE RuntimeCache ----------------------------
(***************************************************************************)
(* WorkspaceRuntimeManager (tankai/web/runtime.py): the cache of open      *)
(* workspace runtimes that the request threads of the web server share.   *)
(*                                                                         *)
(* The manager's lock makes get with its lease, the end of a lease and     *)
(* close() one step each; between them a thread waits for the runtime's    *)
(* own lock and uses the runtime.  lru is the key order of the             *)
(* OrderedDict, as the pairs of keys of which the first comes before the   *)
(* second; _touch moves a key to the end whenever it stamps it, so the     *)
(* entries idle for longer than the TTL are always the first of it.        *)
(***************************************************************************)
EXTENDS Naturals, FiniteSets

CONSTANTS Threads,        \* the server's request threads
          Workspaces,     \* workspace keys: tenant and workspace
          NoWorkspace,
          MaxRuntimes,    \* max_runtimes
          MaxMade,        \* bound on the runtimes ever created
          MaxCloseFaults  \* bound on the calls of close() that fail

ASSUME CacheAssumption ==
    /\ IsFiniteSet(Threads)
    /\ NoWorkspace \notin Workspaces
    /\ MaxRuntimes \in Nat \ {0}
    /\ MaxMade \in Nat
    /\ MaxCloseFaults \in Nat

VARIABLES lru,            \* _runtimes: the order of the keys, least recently used first
          cached,         \* _runtimes: the runtime under a key, 0 if none
          runtimes,       \* every runtime created
          leases,         \* _leases
          stage,          \* what each request is doing
          held,           \* the runtime it has a lease on
          managerClosed,  \* _closed
          closeFaults     \* how many closes of a resource have failed

cacheVars == <<lru, cached, runtimes, leases, stage, held, managerClosed, closeFaults>>

Resources == {"ltm", "memory"}
Runtime == [of : Workspaces \cup {NoWorkspace}, closing : BOOLEAN, open : SUBSET Resources]

NotMade == [of |-> NoWorkspace, closing |-> FALSE, open |-> {}]

CacheInit ==
    /\ lru = {}
    /\ cached = [w \in Workspaces |-> 0]
    /\ runtimes = [i \in 1..MaxMade |-> NotMade]
    /\ leases = [w \in Workspaces |-> 0]
    /\ stage = [q \in Threads |-> "idle"]
    /\ held = [q \in Threads |-> 0]
    /\ managerClosed = FALSE
    /\ closeFaults = 0

\* The manager's tables, as one step of it passes them along.
Tables == [lru |-> lru, cached |-> cached, runtimes |-> runtimes, faults |-> closeFaults]

\* runtime.lock is held: by the request that uses the runtime.
Locked(i) == \E q \in Threads : stage[q] = "using" /\ held[q] = i

(***************************************************************************)
(* WorkspaceRuntime.close: every resource still open is closed; those in   *)
(* broken raise, and stay open for the next attempt.                       *)
(***************************************************************************)
CloseRuntime(r, broken) == [r EXCEPT !.closing = TRUE, !.open = @ \cap broken]

\* The keys of _runtimes, and those up to w in their order.
Keyed(T) == {w \in Workspaces : T.cached[w] # 0}
UpToKey(T, w) == {u \in Keyed(T) : u = w \/ <<u, w>> \in T.lru}

\* Of these keys, those whose _evict does not return False: no lease, and the lock is free.
Evictable(T, keys) ==
    {w \in keys \cap Keyed(T) : leases[w] = 0 /\ ~Locked(T.cached[w])}

\* The resources whose close may fail when these keys are evicted.
Failures(T, keys) ==
    {B \in SUBSET (keys \X Resources) :
        /\ T.faults + Cardinality(B) <= MaxCloseFaults
        /\ \A b \in B : b[2] \in T.runtimes[T.cached[b[1]]].open}

\* del self._runtimes[key]: an entry whose close raises stays.
Dropped(keys, broken) == {w \in keys : \A x \in Resources : <<w, x>> \notin broken}

\* _evict of each of these keys, none of which is busy; they stay, closing, where it raises.
Evicted(T, keys, broken) ==
    LET gone == Dropped(keys, broken)
    IN  [lru |-> {p \in T.lru : p[1] \notin gone /\ p[2] \notin gone},
         cached |-> [w \in Workspaces |-> IF w \in gone THEN 0 ELSE T.cached[w]],
         runtimes |-> [i \in 1..MaxMade |->
             LET r == T.runtimes[i]
             IN  IF r.of \in keys /\ T.cached[r.of] = i
                 THEN CloseRuntime(r, {x \in Resources : <<r.of, x>> \in broken}) ELSE r],
         faults |-> T.faults + Cardinality(broken)]

\* What trying to evict these keys may leave.
Swept(T, keys) ==
    LET free == Evictable(T, keys) IN {Evicted(T, free, B) : B \in Failures(T, free)}

\* _evict_expired: the first keys, if any, have been idle for the TTL.
AfterExpiry(T) == {T} \cup UNION {Swept(T, UpToKey(T, w)) : w \in Keyed(T)}

\* get, capacity: the keys are tried in turn until one is evicted.
AfterVictims(T) ==
    IF Cardinality(Keyed(T)) < MaxRuntimes THEN {T}
    ELSE (UNION {{U \in Swept(T, UpToKey(T, v)) : Keyed(T) \ Keyed(U) = {v}} : v \in Keyed(T)})
         \cup {U \in Swept(T, Keyed(T)) : Keyed(U) = Keyed(T)}

\* _touch: move_to_end.
Touched(T, w) ==
    [T EXCEPT !.lru = {p \in @ : p[1] # w} \cup {<<u, w>> : u \in Keyed(T) \ {w}}]

\* get: the cached runtime serves unless it is being closed.
Usable(T, w) == T.cached[w] # 0 /\ ~T.runtimes[T.cached[w]].closing

\* _create_runtime: a runtime with its resources open.
Created(T, w, i) ==
    [T EXCEPT !.runtimes[i] = [of |-> w, closing |-> FALSE, open |-> Resources],
              !.cached[w] = i]

Install(T) ==
    /\ lru' = T.lru
    /\ cached' = T.cached
    /\ runtimes' = T.runtimes
    /\ closeFaults' = T.faults

(***************************************************************************)
(* acquire: get and the lease, under the manager's lock.  A request whose  *)
(* get raises ends with 503 (WorkspaceRuntimeUnavailable) or 500; what the *)
(* sweeps before it did stays done.                                        *)
(***************************************************************************)
Leased(q, w, T) ==
    /\ Install(Touched(T, w))
    /\ leases' = [leases EXCEPT ![w] = @ + 1]
    /\ stage' = [stage EXCEPT ![q] = "queued"]
    /\ held' = [held EXCEPT ![q] = T.cached[w]]
    /\ UNCHANGED managerClosed

Refused(T) == Install(T) /\ UNCHANGED <<leases, stage, held, managerClosed>>

AcquireCached(q, w) ==
    /\ stage[q] = "idle" /\ ~managerClosed
    /\ \E T \in AfterExpiry(Tables) : Usable(T, w) /\ Leased(q, w, T)

\* What the sweep leaves when it leaves no runtime that can serve w.
Unserved(w) == {T \in AfterExpiry(Tables) : ~Usable(T, w)}

\* A closing entry is closed before there is a new one, and only then room is made.
Admitted(w) ==
    LET closed == UNION {Swept(T, {w}) : T \in Unserved(w)}
    IN  UNION {IF T.cached[w] = 0 THEN AfterVictims(T) ELSE {T} : T \in closed}

AcquireNew(q, w) ==
    /\ stage[q] = "idle" /\ ~managerClosed
    /\ \E T \in Admitted(w) :
          /\ T.cached[w] = 0 /\ Cardinality(Keyed(T)) < MaxRuntimes
          /\ \E i \in 1..MaxMade :
                /\ T.runtimes[i] = NotMade
                /\ \A k \in 1..(i - 1) : T.runtimes[k] # NotMade
                /\ Leased(q, w, Created(T, w, i))

\* The entry will not close, every runtime is busy, or _create_runtime raises.
AcquireFails(q, w) ==
    /\ stage[q] = "idle" /\ ~managerClosed
    /\ \E T \in Admitted(w) : Refused(T)

\* with runtime.lock: an RLock, and a request takes one runtime only.
TakeRuntimeLock(q) ==
    /\ stage[q] = "queued" /\ ~Locked(held[q])
    /\ stage' = [stage EXCEPT ![q] = "using"]
    /\ UNCHANGED <<lru, cached, runtimes, leases, held, managerClosed, closeFaults>>

\* The body ends, or raises: the runtime's lock is released before the manager's is taken.
ReleaseRuntimeLock(q) ==
    /\ stage[q] = "using"
    /\ stage' = [stage EXCEPT ![q] = "leaving"]
    /\ UNCHANGED <<lru, cached, runtimes, leases, held, managerClosed, closeFaults>>

\* Mutation: the last request to leave after close() does not evict.
DropLeaseOnly(q) ==
    LET w == runtimes[held[q]].of
    IN  /\ stage[q] = "leaving"
        /\ leases' = [leases EXCEPT ![w] = @ - 1]
        /\ Install(Touched(Tables, w))
        /\ stage' = [stage EXCEPT ![q] = "idle"]
        /\ held' = [held EXCEPT ![q] = 0]
        /\ UNCHANGED managerClosed

(***************************************************************************)
(* The end of acquire: the lease is dropped and the entry stamped; after   *)
(* close() the last one to leave evicts it, whose lock nobody has then.    *)
(***************************************************************************)
DropLease(q) ==
    LET w == runtimes[held[q]].of
        T == Touched(Tables, w)
    IN  /\ stage[q] = "leaving"
        /\ leases' = [leases EXCEPT ![w] = @ - 1]
        /\ IF managerClosed /\ leases[w] = 1
           THEN \E B \in Failures(T, {w}) : Install(Evicted(T, {w}, B))
           ELSE Install(T)
        /\ stage' = [stage EXCEPT ![q] = "idle"]
        /\ held' = [held EXCEPT ![q] = 0]
        /\ UNCHANGED managerClosed

\* close(), from server_close: whatever is not in use is closed now.
CloseManager ==
    /\ ~managerClosed
    /\ managerClosed' = TRUE
    /\ \E T \in Swept(Tables, Keyed(Tables)) : Install(T)
    /\ UNCHANGED <<leases, stage, held>>

CacheNext ==
    \/ \E q \in Threads, w \in Workspaces :
          AcquireCached(q, w) \/ AcquireNew(q, w) \/ AcquireFails(q, w)
    \/ \E q \in Threads : TakeRuntimeLock(q) \/ ReleaseRuntimeLock(q) \/ DropLease(q)
    \/ CloseManager

-----------------------------------------------------------------------------
CacheTypeOK ==
    /\ lru \subseteq Keyed(Tables) \X Keyed(Tables)
    /\ \A u, w \in Keyed(Tables) : u = w \/ (<<u, w>> \in lru <=> <<w, u>> \notin lru)
    /\ \A w \in Workspaces : <<w, w>> \notin lru
    /\ cached \in [Workspaces -> 0..MaxMade]
    /\ runtimes \in [1..MaxMade -> Runtime]
    /\ leases \in [Workspaces -> 0..Cardinality(Threads)]
    /\ stage \in [Threads -> {"idle", "queued", "using", "leaving"}]
    /\ held \in [Threads -> 0..MaxMade]
    /\ managerClosed \in BOOLEAN
    /\ closeFaults \in 0..MaxCloseFaults

\* A request that has a lease holds the runtime that is cached for its workspace, with
\* everything in it open: no sweep, no capacity eviction, no shutdown and no failed
\* close takes it away between the lease and its end.
LeasedRuntimeIsOpen ==
    \A q \in Threads : held[q] # 0 =>
        LET r == runtimes[held[q]]
        IN  cached[r.of] = held[q] /\ ~r.closing /\ r.open = Resources

\* Whatever is open is cached, so that one workspace never has two runtimes on the same
\* files, and there are at most max_runtimes of them, those that would not close included.
OpenRuntimesAreCached ==
    /\ \A i \in 1..MaxMade : runtimes[i].open # {} => cached[runtimes[i].of] = i
    /\ Cardinality({i \in 1..MaxMade : runtimes[i].open # {}}) <= MaxRuntimes

\* After close() a runtime stays open only under a request that still has a lease on it,
\* or because closing it has failed: nothing is left behind for a caller that never comes.
ClosedManagerKeepsNothing ==
    managerClosed => \A w \in Workspaces :
        cached[w] # 0 => leases[w] > 0 \/ runtimes[cached[w]].closing
=============================================================================
