\* One reviewer request at a time, and a classification batch.
SPECIFICATION Spec
CONSTANTS
    Product = {p1}
    Reviewer = {r1, r2}
    Worker = {w1}
    Group = {g1, g2}
    None = None
    Unknown = Unknown
    LockTime = 1
    Bulk = FALSE
    MaxTime = 1
    MaxBatches = 1
    MaxCrashes = 0
PROPERTY
    FinalWord
CHECK_DEADLOCK FALSE
