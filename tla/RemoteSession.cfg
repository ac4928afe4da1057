\* Two clients, two sessions, a fault and a killed client.
CONSTANTS
    Clients = {c1, c2}
    MaxSessions = 2
    NumFiles = 2
    Kind = "container"
    MaxFaults = 1
    MaxCrashes = 1
SPECIFICATION FairSpec
INVARIANTS CleanedIsClean
PROPERTIES ReportIsHonest CachedIsCleanedAtLast
CHECK_DEADLOCK FALSE
