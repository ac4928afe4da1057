\* An SSH target; nothing fails.
CONSTANTS
    Clients = {c1}
    MaxSessions = 1
    NumFiles = 2
    Kind = "ssh"
    MaxFaults = 0
    MaxCrashes = 0
SPECIFICATION Spec
INVARIANTS CleanedIsClean
CHECK_DEADLOCK FALSE
