SPECIFICATION Spec
CONSTANTS
    w1 = w1
    w2 = w2
    w3 = w3
    Workers = {w1, w2, w3}
    Amount = 2
    Environments <- AllEnvironments
    MaxTries = 2
    MaxFaults = 2
INVARIANTS
    TypeOK
    RefundedMeansPaidBack
    RestoredMeansReturned
    RestoredMeansNotRefunded
PROPERTY KeepsPromise
CHECK_DEADLOCK FALSE
