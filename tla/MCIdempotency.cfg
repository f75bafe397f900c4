SPECIFICATION Spec
CONSTANTS
    r1 = r1
    r2 = r2
    r3 = r3
    r4 = r4
    fpA = fpA
    fpB = fpB
    Requests = {r1, r2, r3, r4}
    Fingerprint <- MCFingerprint
    TTL = 2
    ProcessingTimeout = 2
    FailedRetryBackoff = 1
    ClaimTime = 2
    Life = 2
    MaxTime = 3
INVARIANTS
    TypeOK
    OneOwner
    OneEffectUnlessSeenSucceeded
    ReplayFaithful
PROPERTY SucceededUntilExpiry
SYMMETRY Retries
CHECK_DEADLOCK FALSE
