SPECIFICATION WebSpec
CONSTANTS
    a1 = a1  a2 = a2  c1 = c1  c2 = c2
    Threads = {a1, a2}
    Workspaces = {w1, w2, w3}
    NoWorkspace = NoWorkspace
    MaxRuntimes = 2
    MaxMade = 3
    MaxCloseFaults = 2
    Containers = {a1, a2}
    NoContainer = NoContainer
    Posts = {c1, c2}
    NoPost = NoPost
    MaxSnapshot = 2
    MaxBoots = 2
    Logins = {a1, a2}
    AttemptLimit = 2
    AttemptWindow = 3
    BlockTime = 2
    MaxLag = 1
    LastTime = 6
    MaxTries = 6
    Limit = 2
    Window = 3
    MaxDelay = 1
    MaxTime = 6
    MaxCalls = 6
    Submissions = {s1}
    MaxKeys = 3
    JobIds = {1, 2, 3}
    Repositories = {r1}
    NoRepository = NoRepository
    Filters = {"all", "terminal", "queued"}
    PageLimit = 1
    ScanLimit = 2
    MaxInstant = 2
    Users = {c1, c2}
    Spaces = {w1, w2}
    Sessions = {s1}
    Agents = {g1}
    Requests = {a1, a2}
    Processes = {a1, a2}
    ProcessOf <- OwnProcess
    Nobody = Nobody
    NoSpace = NoSpace
    NoAgent = NoAgent
    AgentLimit = 1
    TokenLimit = 1
SYMMETRY WebSymmetry
INVARIANTS
    RuntimesHold
    AuthStateHolds
    RatesHold
    SubmissionsHold
    AccountsHold
CHECK_DEADLOCK FALSE
