SPECIFICATION FairSpec
CONSTANTS
    r1 = r1
    r2 = r2
    Requests <- MCRequests
    Last = 2
    FailureThreshold = 2
    SuccessThreshold = 1
INVARIANTS
    OneVoice
    TriedInOrder
    ClosedBelowThreshold
PROPERTIES
    FirstChoiceReturns
