\* One slot: a side that outlives its run executes beside the next run's.
SPECIFICATION Spec
CONSTANTS
    r1 = r1
    r2 = r2
    r3 = r3
    Runs <- TwoRuns
    MaxConcurrent = 1
    MaxRefs = 0
    RowCounts = {1}
    MaxResultRows = 1
    MongoFaults = FALSE
    MaxCrashes = 0
INVARIANT ExecutionsBounded
