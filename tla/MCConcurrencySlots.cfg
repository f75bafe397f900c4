SPECIFICATION FairSpec
CONSTANTS
    i1 = i1
    i2 = i2
    r1 = r1
    r2 = r2
    r3 = r3
    Instances = {i1, i2}
    Requests = {r1, r2, r3}
    Home <- MCHome
    MaxConcurrency = 1
    QueueLimit = 1
    SlotTTL = 2
    WaitTTL = 2
    Patience = 1
    Overlap = FALSE
    MayFail <- Everywhere
INVARIANTS
    TypeOK
    AdmittedWithinLimit
    HeldMeansSlot
    WaitersCounted
PROPERTY IndexDrains
CHECK_DEADLOCK FALSE
