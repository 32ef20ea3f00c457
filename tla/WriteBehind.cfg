CONSTANTS
    Callers = {c1}
    SeedLengths = {0, 1}
    Faults = {"write", "sync", "link", "dirsync"}
    MaxFaults = 2
    MaxEvents = 3
    MaxCrashes = 1
SPECIFICATION FairSpec
INVARIANTS TypeOK NothingStranded
PROPERTIES KeepsThePromise RejectsOnlyOnFault FlushesAreAnswered
CHECK_DEADLOCK FALSE
