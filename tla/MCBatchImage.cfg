SPECIFICATION FairSpec
CONSTANTS
    c1 = c1
    c2 = c2
    w1 = w1
    w2 = w2
    sweep = sweep
    Clients = {c1, c2}
    Workers = {w1}
    Sweep = sweep
    Hold = 2
    StartBalances = {1, 3}
    StartFrozen = {2}
    Costs = {1, 3}
    MaxRetries = 2
    Prompt <- PromptSubmit
    Unseen <- UnseenJob
    MayFail <- FailElsewhere
    MayLose <- LoseElsewhere
    MayCrash <- CrashElsewhere
    MayStall <- StallNowhere
    MaxFaults = 1
INVARIANTS
    TypeOK
    CompletedMeansCharged
    HoldTracked
PROPERTIES
    KeepsPromise
    HoldIsSettled
CHECK_DEADLOCK FALSE
