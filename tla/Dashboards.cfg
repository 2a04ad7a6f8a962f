\* Two clients that ask for statistics of two tables, beside an update, a deletion and
\* restarts.
SPECIFICATION Spec
CONSTANTS
    a = a
    b = b
    Clients = {u1, u2}
    Tables = {a, b}
    Configs <- Monitored
    Times = {0, 2}
INVARIANTS
    NoOrphansUnlessOverlapped
    CaptureIsShown
    FreshUnlessDisturbed
SYMMETRY Symmetry
CHECK_DEADLOCK FALSE
