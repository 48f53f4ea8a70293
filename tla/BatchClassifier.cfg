SPECIFICATION MCSpec
CONSTANTS
    Item = {i1, i2, i3}
    Enabled = {i1, i2}
    Worker = {w1, w2}
    Store = "postgres"
    MaxRequests = 3
    MaxDeaths = 1
    Requests <- MCRequests
    RepliesTo <- MCRepliesTo
    WWFThreshold = 70
    BatchSize = 2
    RetryBatchSize = 1
    RetryFactor = 2
    ScopeTrigger = 34
    UnknownTrigger = 34
    ReviewTrigger = 40
INVARIANTS
    AnsweredMeansSeen
    AcceptedIsTheModels
    OneVerdictEach
    FailuresAreCounted
CHECK_DEADLOCK FALSE
