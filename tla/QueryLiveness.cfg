\* Liveness: two runs, one slot, no faults and no restart; no symmetry.
SPECIFICATION FairSpec
CONSTANTS
    r1 = r1
    r2 = r2
    r3 = r3
    Runs <- TwoRuns
    MaxConcurrent = 1
    MaxRefs = 1
    RowCounts = {1}
    MaxResultRows = 1
    MongoFaults = FALSE
    MaxCrashes = 0
PROPERTY EveryRunSettles
