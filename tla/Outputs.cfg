\* One export on either store, three rounds of recommendations
\* over two action types, a scenario with two operations, three jobs, the NEVO
\* commands of one or two operators.
CONSTANTS
    Worker = {w1, w2}
    Format = {"csv"}
    Store = "memory"
    MaxExports = 1
    MaxDownloads = 2
    MaxDeaths = 1
    Operation = {"shift"}
    Order = {0, 1}
    MaxScenarios = 1
    MaxOperations = 2
    Action = {"replace", "reduce"}
    MaxGenerated = 3
    Key = {"classify", "ingest"}
    MaxJobs = 3
    Product = {"soup", "ham"}
    Operator = {"anna", "bob"}
    Rows <- AllRows
    Protein = {1, 2}
    NoFile = NoFile
    MaxReviews = 1
    MaxEntries = 1
    MaxFaults = 1
SPECIFICATION MCSpec
INVARIANTS
    ClientsGetApproved
    VerifiedIsUsed
    ActiveHasResult
    OneAtATime
PROPERTIES
    PromotedIsKept
    JobsEnd
CHECK_DEADLOCK FALSE
