\* One file of up to four rows; Postgres with two tabs, memory with one.  Upload
\* records with two requests on Postgres, two at a time, and three in memory.
CONSTANTS
    JobId = {j1}
    Worker = {w1, w2}
    RowCount = 4
    ChunkSize = {1, 3}
    MaxChunk = 3
    InsertSize = 2
    MaxFaults = 1
    Upload = {u1, u2}
    File <- Contents
    Store = "postgres"
    MaxRequests = 2
    MaxDeaths = 1
    MaxRows = 2
    Imported <- MCImported
SPECIFICATION MCSpec
INVARIANTS
    RowsAccounted
    InsertedArePresent
    CompletedMeansIngested
    MemoryRepeatIsHarmless
    ReportMeansStored
    RowsAreAnswered
    PreviewKeepsItsWord
PROPERTIES
    JobSettles
CHECK_DEADLOCK FALSE
