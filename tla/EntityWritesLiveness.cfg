SPECIFICATION FairSpec
CONSTANTS
    k1 = k1
    k2 = k2
    k3 = k3
    b1 = b1
    b2 = b2
    b3 = b3
    c1 = c1
    u1 = u1
    d1 = d1
    w1 = w1
    w2 = w2
    Keys = {k1, k2}
    Txns = {b1, b2, b3, c1}
    Located = {b1}
    MaxRetries = 1
    Op <- AllOps
    Target <- Targets
    Worker <- TwoWorkers
CHECK_DEADLOCK FALSE
INVARIANTS
    TypeOK
PROPERTIES
    EveryWriteEnds
