SPECIFICATION FairSpec
CONSTANTS
    w1 = w1
    w2 = w2
    c1 = c1
    c2 = c2
    t1 = t1
    None = None
    NoTag = NoTag
    Writer = {w1, w2}
    Cell = {c1, c2}
    Tag = {t1}
    OciTag = {t1}
    MaxOutside = 1
    Faults <- GitFaults
INVARIANTS
    ReplyTruth
PROPERTIES
    ImplementsLedger
    EveryApplyReturns
