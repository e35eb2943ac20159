SPECIFICATION FairSpec
CONSTANTS
    r1 = r1
    r2 = r2
    p1 = p1
    p2 = p2
    k1 = k1
    k2 = k2
    s1 = s1
    w1 = w1
    t1 = t1
    t2 = t2
    t3 = t3
    None = None
    NoTag = NoTag
    Request = {r1, r2}
    Pair = {p1}
    Key = {k1, k2}
    LockKey <- Keys
    Server = {s1}
    Host <- OneServer
    PoolSize = 3
    Workload = {w1}
    Tag = {t1}
    OciTag = {t1}
    MaxOutside = 0
    Body <- Bodies
    Conforming <- Admitted
    ForeignText <- Foreign
    Faults <- Gone
INVARIANTS
    AuditComplete
    EnvironmentPinned
PROPERTIES
    InProgressResolved
    LockReleased
