\* One client that syncs and cleans; nothing fails.
CONSTANTS
    Clients = {c1}
    MaxSessions = 1
    NumFiles = 2
    Kind = "container"
    MaxFaults = 0
    MaxCrashes = 0
SPECIFICATION Spec
INVARIANTS CleanedLeavesNothing
CHECK_DEADLOCK FALSE
