SPECIFICATION FairSpec
CONSTANTS
    Runs = {a, b, c}
    NoJournal = NoJournal
    NoRun = NoRun
    MaxCrashes = 2
    MaxErrors = 2
INVARIANTS
    TypeOK
    
    StableIsInMain
    IntegratedOnce
    WaitingRunIsUsable
PROPERTIES
    
    OrphanedInOnePlace
    IntegrationEnds
