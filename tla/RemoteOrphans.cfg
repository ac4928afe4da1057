\* One client whose upload fails half way.
CONSTANTS
    Clients = {c1}
    MaxSessions = 1
    NumFiles = 2
    Kind = "container"
    MaxFaults = 1
    MaxCrashes = 0
SPECIFICATION Spec
INVARIANTS OrphansAreListed
CHECK_DEADLOCK FALSE
