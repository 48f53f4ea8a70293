\* Two requests at a time, a classification batch, and one request that may die.
SPECIFICATION Spec
CONSTANTS
    Product = {p1}
    Reviewer = {r1, r2}
    Worker = {w1, w2}
    Group = {g1, g2}
    None = None
    Unknown = Unknown
    LockTime = 1
    Bulk = TRUE
    MaxTime = 1
    MaxBatches = 1
    MaxCrashes = 1
SYMMETRY Symmetry
INVARIANTS
    LockIsBounded
PROPERTIES
    RemovedIsDecided
    FinalWordUnlessListed
CHECK_DEADLOCK FALSE
