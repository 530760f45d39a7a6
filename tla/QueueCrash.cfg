SPECIFICATION Spec
CONSTANTS
    r1 = r1  r2 = r2  j1 = j1  j2 = j2  ws = ws  small = small  large = large
    Scopes = {r1}
    Holders = {j1, j2}
    Durations = {1, 2}
    NoHolder = NoHolder
    MaxWait = 1
    MaxTime = 5
    MaxIssued = 9
    Workers = {w1, w2}
    Workspaces = {ws}
    Policies <- OneTryPolicy
    RepoOf <- OneRepo
    WorkspaceOf <- OneWorkspace
    ProfileOf <- SmallJobs
    Rank <- JobRank
    ScanLimit = 200
    ClaimLease = 1
    BeatLease = 2
    Retryable = {FALSE}
    NoPolicy = NoPolicy
    NoLease = NoLease
    Unlocked = Unlocked
    MaxBeats = 1
    MaxStages = 0
    MaxFaults = 1
    MaxForced = 1
    MaxPolicies = 0
    MaxRestores = 0
INVARIANTS
    TypeOK
    OneActivePerRepo
    CheckHoldsUntilCommit
    RunningLeaseIsNewest
PROPERTIES
    SuccessUnderNewestEpoch
    TerminalIsFinal
