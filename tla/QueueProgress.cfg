SPECIFICATION FairSpec
CONSTANTS
    r1 = r1  r2 = r2  j1 = j1  j2 = j2  ws = ws  small = small  large = large
    Scopes = {r1, r2}
    Holders = {j1, j2}
    Durations = {1, 2}
    NoHolder = NoHolder
    MaxWait = 0
    MaxTime = 20
    MaxIssued = 9
    Workers = {w1, w2}
    Workspaces = {ws}
    Policies <- ChangingPolicies
    RepoOf <- TwoRepos
    WorkspaceOf <- OneWorkspace
    ProfileOf <- MixedJobs
    Rank <- JobRank
    ScanLimit = 200
    ClaimLease = 1
    BeatLease = 2
    Retryable = {FALSE}
    NoPolicy = NoPolicy
    NoLease = NoLease
    Unlocked = Unlocked
    MaxBeats = 0
    MaxStages = 0
    MaxFaults = 1
    MaxForced = 0
    MaxPolicies = 1
    MaxRestores = 0
PROPERTIES
    CapacityRespected
    QueuedJobsEnd
