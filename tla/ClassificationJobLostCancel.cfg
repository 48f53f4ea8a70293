\* A cancel, or a second advance, meets an advance in flight.
SPECIFICATION Spec
CONSTANTS
    Product = {p1, p2}
    JobId = {j1}
    Worker = {w1, w2}
    Methodology = "pt"
    BatchSize = {1, 2}
    MaxBatch = 2
    RetryFloor = 1
    MaxCrashes = 0
PROPERTY
    CancelSticks
CHECK_DEADLOCK FALSE
