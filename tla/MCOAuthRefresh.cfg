SPECIFICATION Spec
CONSTANTS
    w1 = w1
    w2 = w2
    w3 = w3
    a1 = a1
    a2 = a2
    p1 = p1
    p2 = p2
    Refreshers = {w1, w2, w3}
    Home <- MCHome
    Admins = {a1, a2}
    MaxRotations = 2
    MaxGrants = 1
    Parties <- MCParties
INVARIANTS
    TypeOK
    OneRefresher
    TokenKept
    QuarantineDeserved
    ReauthorizationKept
SYMMETRY Symmetry
CHECK_DEADLOCK FALSE
