\* Three requests on one configuration, with and without failures of MongoDB, GCS
\* and the server.
SPECIFICATION ConfigSpec
CONSTANTS
    Requests = {q1, q2, q3}
    MaxCreds = 1
    FaultModes = {FALSE, TRUE}
INVARIANTS
    ConfigTypeOK
    CopyMatchesVersion
    RecordedCopyExists
    CurrentVersionCopied
    PathCurrentUnlessOverlapped
PROPERTY
    RefreshKeepsCredentials
SYMMETRY Symmetry
CHECK_DEADLOCK FALSE
