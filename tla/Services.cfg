\* Two clients of the rate limiter, two requests in any three ticks, over more than two
\* windows; three requests on a source of each kind of connection; three people with two
\* addresses and three starts of the server; a table of at most two rows.
SPECIFICATION ServicesSpec
SYMMETRY Symmetry
CONSTANTS
    Clients = {c1, c2}
    MaxRequests = 2
    Window = 3
    MaxTime = 7
    Callers = {r1, r2, r3}
    Types = {"postgres", "db2", "mongodb", "rest_api", "file"}
    Ttl = 2
    EndOfTime = 4
    MaxVersion = 2
    People = {p1, p2, p3}
    Addresses = {e1, e2}
    MaxStarts = 3
    RowNames = {n1, n2}
    Spans <- OneTwoThree
    LastHour = 6
INVARIANTS
    TypeOK
    WindowBounded
    VerdictExact
    StaleAtMostOneTtl
    LeftOpenExplained
    DuplicatesOnlyByOverlap
    FiguresOrdered
CHECK_DEADLOCK FALSE
