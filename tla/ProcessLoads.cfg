\* One run and two requests on its configuration; nothing fails.
SPECIFICATION Spec
CONSTANTS
    r1 = r1
    r2 = r2
    g1 = g1
    Runs <- OneRun
    Guests = {}
    Requests = {q1, q2}
    MaxCreds = 1
    FaultModes = {FALSE}
    MaxConcurrent = 1
    RowCounts = {1}
    MaxResultRows = 1
INVARIANTS
    ExecutesWrittenVersion
PROPERTY AutoUsesCurrentVersion
SYMMETRY RequestSymmetry
CHECK_DEADLOCK FALSE
