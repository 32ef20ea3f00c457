CONSTANTS
    Messages = {m1, m2}
    UserMessages = {m1}
    Notes = {n1}
    LoopKinds = {text}
    Limit = 2
    LoopLimit <- MCLoopLimit
    RecoveryOptions = {FALSE}
    MaxTurns = 1
    MaxSteps = 1
SPECIFICATION Spec
PROPERTIES DisposalParks
