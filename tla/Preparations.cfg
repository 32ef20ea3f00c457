CONSTANTS
    Clients = {c1, c2}
    Slots = {s1, s2, s3}
    MaxCalls = 3
    MaxWrites = 2
    MaxFaults = 1
    MaxAborts = 1
SPECIFICATION FairSpec
INVARIANTS TypeOK ReservationIsSound
PROPERTIES CallsEnd
CHECK_DEADLOCK FALSE
