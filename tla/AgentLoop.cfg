CONSTANTS
    Messages = {m1, m2}
    UserMessages = {m1}
    Notes = {n1}
    LoopKinds = {text}
    Limit = 2
    LoopLimit <- MCLoopLimit
    RecoveryOptions = {TRUE, FALSE}
    MaxTurns = 2
    MaxSteps = 2
SPECIFICATION FairSpec
INVARIANTS TypeOK NoLostWake OneOrdinaryMessage IdleIsFinal
PROPERTIES OneDriver WritesValidLog EndsHonestly WakesAreAnswered WaitersAreReleased
