\* Two runs, one slot, every fault: MongoDB writes that raise before or after
\* they take effect, Redis likewise, and one restart of the server.
SPECIFICATION Spec
SYMMETRY Symmetry
CONSTANTS
    r1 = r1
    r2 = r2
    r3 = r3
    Runs <- TwoRuns
    MaxConcurrent = 1
    MaxRefs = 1
    RowCounts = {0, 2}
    MaxResultRows = 1
    MongoFaults = TRUE
    MaxCrashes = 1
INVARIANTS
    TypeOK
    SlotAccounting
    CompletedHasResult
    DerivedFromStored
PROPERTIES
    ResultsNeverChange
    ImplementsLifecycle
