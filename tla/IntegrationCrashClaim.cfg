SPECIFICATION Spec
CONSTANTS
    Runs = {a, b}
    NoJournal = NoJournal
    NoRun = NoRun
    MaxCrashes = 1
    MaxErrors = 0
INVARIANTS
    CrashIsRepaired
