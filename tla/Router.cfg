CONSTANTS
    a = a
    b = b
    q1 = q1
    q2 = q2
    q3 = q3
    Clients <- MCClients
    Conns <- MCConns
    RateLimitRequests = 1
    RateLimitWindow = 2
    MaxRequests = 4
    Horizon = 4
SPECIFICATION Spec
SYMMETRY Symmetry
INVARIANTS
    TypeOK
    LongRunRate
    BurstBound
    RefusedOnlyAtLimit
    TrafficAccounted
CHECK_DEADLOCK FALSE
