SPECIFICATION Spec
CONSTANTS
    r1 = r1
    r2 = r2
    r3 = r3
    r4 = r4
    fpA = fpA
    fpB = fpB
    Requests = {r1, r2, r3}
    Fingerprint <- MCFingerprint
    TTL = 3
    ProcessingTimeout = 2
    FailedRetryBackoff = 1
    ClaimTime = 2
    Life = 3
    MaxTime = 5
INVARIANT OneEffectPerWindow
SYMMETRY Retries
CHECK_DEADLOCK FALSE
