SPECIFICATION FairSpec
CONSTANTS
    c1 = c1
    c2 = c2
    Connections = {c1, c2}
    MaxConnections = 1
    TTL = 6
    Interval = 2
    Timeout = 1
INVARIANTS
    TypeOK
    ConfirmedWithinCap
    UnconfirmedBounded
PROPERTIES
    LostIsEnded
    PlaceReturns
CHECK_DEADLOCK FALSE
