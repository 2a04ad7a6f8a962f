\* One run beside a task of the query engine, with and without failures of MongoDB,
\* GCS and the server.
SPECIFICATION FairSpec
CONSTANTS
    r1 = r1
    r2 = r2
    g1 = g1
    Runs <- OneRun
    Guests = {g1}
    Requests = {q1}
    MaxCreds = 1
    FaultModes = {FALSE, TRUE}
    MaxConcurrent = 1
    RowCounts = {0, 2}
    MaxResultRows = 1
INVARIANTS
    RunTypeOK
    SlotsShared
    CompletedHasResult
    SavedTableMatches
PROPERTIES
    EveryRunSettles
    ImplementsLifecycle
CHECK_DEADLOCK FALSE
