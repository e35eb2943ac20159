SPECIFICATION Spec
CONSTANTS
    r1 = r1
    r2 = r2
    r3 = r3
    p1 = p1
    p2 = p2
    k1 = k1
    k2 = k2
    s1 = s1
    s2 = s2
    None = None
    Request = {r1, r2}
    Pair = {p1, p2}
    Key = {k1, k2}
    LockKey <- DistinctKeys
    Server = {s1}
    Host <- OneServer
    PoolSize = 3
    Faults <- OnlySessionLoss
INVARIANT
    AtMostOneInFlight
