\* Two requests at a time: two tabs, or a client that retries after a timeout.
SPECIFICATION Spec
CONSTANTS
    Product = {p1, p2, p3}
    JobId = {j1}
    Worker = {w1, w2}
    Methodology = "pt"
    BatchSize = {2}
    MaxBatch = 2
    RetryFloor = 1
    MaxCrashes = 1
SYMMETRY Symmetry
INVARIANTS
    IInv
    NoProductSkipped
    ProgressAddsUp
    CompletedIsComplete
CHECK_DEADLOCK FALSE
