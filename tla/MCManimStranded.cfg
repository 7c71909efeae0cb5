SPECIFICATION FairSpec
CONSTANTS
    Jobs = {j1}
    Clients = {c1}
    Workers = {w1}
    MaxAttempts = 2
    MaxActive = 1
    HourlyLimit = 2
    MaxSubmits = 1
    MaxMishaps = 0
PROPERTIES
    EveryJobEnds
CHECK_DEADLOCK FALSE
