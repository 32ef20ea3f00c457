CONSTANTS
    NumCalls = 2
    MaxTurns = 2
    MaxSteps = 1
SPECIFICATION Spec
INVARIANTS TypeOK LogIsValid ClosersBalance NotStartedNeverRan
PROPERTIES RepairConverges RecoveryEnds
