SPECIFICATION AnalyzerSpec
CONSTANTS
    Tasks = {t1, t2, t3}
    Fallbacks <- MCFallbacks
    MaxAttempts = 2
    FailureThreshold = 2
    SuccessThreshold = 2
INVARIANTS
    FirstThatCould
PROPERTIES
    ClosesOnFreshSuccesses
    PlanMade
