SPECIFICATION Spec
CONSTANTS
    Ids <- MCIds
    LogLength = 3
    Kind <- MCKind
    Id <- MCId
    MaxConcurrent = 2
    MaxPoll = 2
    MaxAttempts = 2
    MaxRestarts = 0
    MaxRebalances = 1
    MaxForgets = 1
INVARIANTS
    PermitConservation
    OncePerCacheLife
    NoConcurrentDuplicate
    LossIsOvertaking
CHECK_DEADLOCK FALSE
