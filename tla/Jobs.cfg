CONSTANTS
    Jobs = {j1, j2, j3}
    Owners = {a1}
    Waiters = {w1}
    maxConcurrentJobsPerOwner = 2
    wakeBudget = 1
SPECIFICATION FairSpec
INVARIANTS TypeOK NoEndIsLost NoWorkIsUntracked
PROPERTIES WaitsAndTeardownsEnd
CHECK_DEADLOCK FALSE
