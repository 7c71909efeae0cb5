SPECIFICATION Spec
CONSTANTS
    r1 = r1
    r2 = r2
    Requests <- OneRequest
    Last = 2
    FailureThreshold = 2
    SuccessThreshold = 2
INVARIANTS
    SuccessesClose
CHECK_DEADLOCK FALSE
