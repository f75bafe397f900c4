SPECIFICATION Spec
CONSTANTS
    c1 = c1
    c2 = c2
    w1 = w1
    w2 = w2
    sweep = sweep
    Clients = {c1}
    Workers = {w1, w2}
    Sweep = sweep
    Hold = 2
    StartBalances = {3}
    StartFrozen = {2}
    Costs = {1, 3}
    MaxRetries = 4
    Prompt <- PromptSubmit
    Unseen <- UnseenJob
    MayFail <- FailButIndexing
    MayLose <- LoseElsewhere
    MayCrash <- CrashElsewhere
    MayStall <- StallAtCalls
    MaxFaults = 3
INVARIANT CompletedMeansCharged
PROPERTY KeepsPromise
SYMMETRY Symmetry
CHECK_DEADLOCK FALSE
