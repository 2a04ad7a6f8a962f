\* Three runs, so that two wait for the one slot and one can join the results
\* of the other two; MongoDB answers, the server may restart once.
SPECIFICATION Spec
SYMMETRY Symmetry
CONSTANTS
    r1 = r1
    r2 = r2
    r3 = r3
    Runs <- ThreeRuns
    MaxConcurrent = 1
    MaxRefs = 0
    RowCounts = {2}
    MaxResultRows = 1
    MongoFaults = FALSE
    MaxCrashes = 1
INVARIANTS
    QueueSound
    NoRunLeftBehind
PROPERTY OutcomeFinal
