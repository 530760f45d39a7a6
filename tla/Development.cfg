SPECIFICATION DevSpec
CONSTANTS
    t1 = t1
    t2 = t2
    t3 = t3
    r1 = r1
    r2 = r2
    Tasks <- MCTasks
    Runs <- MCRuns
    TaskOf <- MCTaskOf
    Deps <- MCDeps
    Scope <- MCScope
    ModuleOf <- MCModuleOf
    SecurityTasks <- MCSecurityTasks
    NoTask = NoTask
    NoRun = NoRun
    NoCommit = NoCommit
    MaxActive = 2
    MaxTotal = 2
    MaxPerModule = 1
    MaxDepth = 1
    MaxChildren = 1
    MaxCommits = 3
    MaxInterventions = 3
    MaxCrashes = 1
SYMMETRY MCSymmetry
INVARIANTS
    TypeOK
    GatesPassed
    OneWriter
    DependenciesFirst
    EndedPipelineClosesRun
    ReadyIsIntegrable
    ListsMatch
    LimitsHold
CHECK_DEADLOCK FALSE
