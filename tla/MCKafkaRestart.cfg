SPECIFICATION FairSpec
CONSTANTS
    Ids <- MCIds
    LogLength = 3
    Kind <- MCKind2
    Id <- MCId2
    MaxConcurrent = 2
    MaxPoll = 2
    MaxAttempts = 2
    MaxRestarts = 1
    MaxRebalances = 0
    MaxForgets = 0
INVARIANTS
    NoSkippedRecord
PROPERTIES
    LogDrained
CHECK_DEADLOCK FALSE
