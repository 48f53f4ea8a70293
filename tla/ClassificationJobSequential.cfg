\* One request at a time: a single tab that waits for each answer.
SPECIFICATION FairSpec
CONSTANTS
    Product = {p1, p2}
    JobId = {j1, j2}
    Worker = {w1}
    Methodology = "pt"
    BatchSize = {1, 2}
    MaxBatch = 2
    RetryFloor = 1
    MaxCrashes = 1
PROPERTIES
    PlaceholderNotStranded
    TerminalIsFinal
    FailuresShow
    JobSettles
    ImplementsLifecycle
CHECK_DEADLOCK FALSE
