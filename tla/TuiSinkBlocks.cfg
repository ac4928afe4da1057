\* One press of r.
CONSTANTS
    MaxReruns = 1
    EventsPerScan = 3
    ChannelCap = 1
    NoSession = NoSession
SPECIFICATION FairSpec
PROPERTIES CancelledScanEnds
CHECK_DEADLOCK FALSE
