SPECIFICATION PlatformSpec
CONSTANTS
    p1 = p1  p2 = p2  p3 = p3
    Budgets = {5, 7, 12}
    MaxRetries = 1
    MaxSteps = 2
    Sources = {q1}
    Invented = Invented
    Entries = {p1, p2}
    WarmAfter = 2
    ColdAfter = 3
    LastDay = 3
    MaxLines = 2
    MaxFaults = 1
    Processes = {p1, p2, p3}
    NoProcess = NoProcess
    Artifacts = {f1}
    Drive = Drive
    Github = Github
    MaxEpoch = 2
    MinAges = {0, 1}
    Writers = {p1, p2}
    Letters = {"a"}
    MaxLength = 5
SYMMETRY PlatformSymmetry
INVARIANTS
    RunsHold
    
    LockedFilesHold
    CleanupHolds
    ScopesHold
PROPERTIES
    LiveTreeIsRemovedLate
    ImplementsAtomicState
CHECK_DEADLOCK FALSE
