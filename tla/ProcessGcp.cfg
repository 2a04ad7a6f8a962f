\* A configuration kept in GCS is deleted while a run of it waits for its turn.
SPECIFICATION Spec
CONSTANTS
    r1 = r1
    r2 = r2
    g1 = g1
    Runs <- OneRun
    Guests = {}
    Requests = {q1, q2}
    MaxCreds = 1
    FaultModes = {FALSE}
    MaxConcurrent = 1
    RowCounts = {1}
    MaxResultRows = 1
INVARIANT GcpNeedsNoDocument
CHECK_DEADLOCK FALSE
