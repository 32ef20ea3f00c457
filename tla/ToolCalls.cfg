CONSTANTS
    NumCalls = 3
    maxParallelToolCalls = 2
    Attempts = 1
SPECIFICATION Spec
INVARIANTS TypeOK EveryCallAnswered ResultsInModelOrder ExclusiveRunsAlone EndsQuiescent
PROPERTIES WritesValidLog
CHECK_DEADLOCK FALSE
