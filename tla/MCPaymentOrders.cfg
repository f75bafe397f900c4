SPECIFICATION Spec
CONSTANTS
    w1 = w1
    w2 = w2
    w3 = w3
    Workers = {w1, w2, w3}
    OrderTypes = {"balance", "subscription"}
    Prompt <- PromptReload
    MayFail <- Anywhere
    MaxFaults = 2
INVARIANTS
    TypeOK
    GrantedOnce
    GrantedMeansPaid
    CompletedMeansGranted
    
    LeaseIsOwners
PROPERTY KeepsPromise
SYMMETRY Symmetry
CHECK_DEADLOCK FALSE
