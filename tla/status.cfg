SPECIFICATION FairSpec
CONSTANTS
    Reader = {r1, r2, r3}
    Source = {s1}
    Ttl = 2
    FetchTimeout = 1
    MaxNow = 3
    MaxWrites = 1
    None = None
INVARIANTS
    TypeOK
    MonotoneReads
    StaleServedOnce
PROPERTIES
    FreshEnough
    EveryReadAnswered
