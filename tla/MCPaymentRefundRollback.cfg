SPECIFICATION Spec
CONSTANTS
    w1 = w1
    w2 = w2
    w3 = w3
    Workers = {w1, w2, w3}
    Amount = 2
    Environments <- RollbackFails
    MaxTries = 2
    MaxFaults = 1
INVARIANT NeverDeductedTwice
CHECK_DEADLOCK FALSE
