SPECIFICATION Spec
CONSTANTS
    Runs = {a, b}
    NoJournal = NoJournal
    NoRun = NoRun
    MaxCrashes = 0
    MaxErrors = 1
INVARIANTS
    StateAgreesWithGit
