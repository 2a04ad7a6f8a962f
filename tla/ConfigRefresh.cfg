\* A refresh and an update at once.
SPECIFICATION ConfigSpec
CONSTANTS
    Requests = {q1, q2, q3}
    MaxCreds = 1
    FaultModes = {FALSE}
PROPERTY
    RefreshKeepsText
CHECK_DEADLOCK FALSE
