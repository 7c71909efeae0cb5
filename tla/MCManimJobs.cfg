SPECIFICATION FairSpec
CONSTANTS
    Jobs = {j1}
    Clients = {c1, c2}
    Workers = {w1, w2}
    MaxAttempts = 2
    MaxActive = 1
    HourlyLimit = 2
    MaxSubmits = 3
    MaxMishaps = 1
INVARIANTS
    RenderTwiceOnlyResubmitted
    AttemptBudget
PROPERTIES
    TerminalIsFinal
    FinishedWorkLands
    JobsEnd
CHECK_DEADLOCK FALSE
