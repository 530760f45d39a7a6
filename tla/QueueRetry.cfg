SPECIFICATION Spec
CONSTANTS
    r1 = r1  r2 = r2  j1 = j1  j2 = j2  ws = ws  small = small  large = large
    Scopes = {r1}
    Holders = {j1}
    Durations = {1, 2}
    NoHolder = NoHolder
    MaxWait = 0
    MaxTime = 5
    MaxIssued = 9
    Workers = {w1, w2}
    Workspaces = {ws}
    Policies <- RetryPolicy
    RepoOf <- OneRepo
    WorkspaceOf <- OneWorkspace
    ProfileOf <- SmallJobs
    Rank <- JobRank
    ScanLimit = 200
    ClaimLease = 1
    BeatLease = 2
    Retryable = {TRUE, FALSE}
    NoPolicy = NoPolicy
    NoLease = NoLease
    Unlocked = Unlocked
    MaxBeats = 0
    MaxStages = 1
    MaxFaults = 1
    MaxForced = 0
    MaxPolicies = 0
    MaxRestores = 1
INVARIANTS
    AttemptsBounded
PROPERTIES
    
    SupersededWorkersStop
    ImplementsFencedLock
