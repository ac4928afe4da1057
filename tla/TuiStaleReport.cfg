\* One press of r.
CONSTANTS
    MaxReruns = 1
    EventsPerScan = 2
    ChannelCap = 1
    NoSession = NoSession
SPECIFICATION FairSpec
INVARIANTS LatestScanIsShown
CHECK_DEADLOCK FALSE
