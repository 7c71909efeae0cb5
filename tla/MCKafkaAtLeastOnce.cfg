SPECIFICATION Spec
CONSTANTS
    Ids <- MCIds
    LogLength = 3
    Kind <- MCKind
    Id <- MCId
    MaxConcurrent = 2
    MaxPoll = 2
    MaxAttempts = 2
    MaxRestarts = 1
    MaxRebalances = 0
    MaxForgets = 1
INVARIANTS
    AtLeastOnce
CHECK_DEADLOCK FALSE
