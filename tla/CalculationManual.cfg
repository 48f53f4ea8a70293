\* A corrected manual value is not the one that is used.
CONSTANTS
    Part = 2
    Hundred = 10
    ShareHundred = 20
    Tolerance = 1
    Cheese = 10
    Top = 1
    Input <- MCInput
    Filter <- MCFilter
    Key = {"lasagne", "quiche", "branded", "apple"}
    Catalogue <- StepCatalogue
    File <- StepFiles
    MaxUploads = 3
    Product = {"labelled", "bare"}
    Labelled = {"labelled"}
    Group = {"plant_based_core", "unknown"}
    Pct = {1, 2}
    Worker = {w1, w2}
    Store = "memory"
    MaxRecords = 2
    MaxRuns = 2
SPECIFICATION MCSpec
INVARIANTS
    LatestManualCounts
CHECK_DEADLOCK FALSE
