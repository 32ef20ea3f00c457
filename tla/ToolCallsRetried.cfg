CONSTANTS
    NumCalls = 2
    maxParallelToolCalls = 2
    Attempts = 2
SPECIFICATION FairSpec
PROPERTY CancellationIsHonest
PROPERTY BatchEnds
CHECK_DEADLOCK FALSE
