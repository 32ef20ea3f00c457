CONSTANTS
    Callers = {c1}
    SeedLengths = {0}
    Faults = {"dirsync"}
    MaxFaults = 1
    MaxEvents = 2
    MaxCrashes = 0
SPECIFICATION Spec
INVARIANT MaterializesAtomically
CHECK_DEADLOCK FALSE
