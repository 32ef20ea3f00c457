CONSTANTS
    Messages = {m1}
    UserMessages = {m1}
    Notes = {n1}
    LoopKinds = {text}
    Limit = 2
    LoopLimit <- MCLoopLimit
    RecoveryOptions = {TRUE}
    MaxTurns = 2
    MaxSteps = 2
SPECIFICATION Spec
INVARIANTS WhenIdleMeansIdle
