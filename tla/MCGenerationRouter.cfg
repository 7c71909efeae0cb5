SPECIFICATION Spec
CONSTANTS
    Requests = {r1, r2}
    FallbackEnabled = TRUE
    FailureThreshold = 2
    SuccessThreshold = 1
PROPERTIES
    RouterIsChain
