\* One press of r.
CONSTANTS
    MaxReruns = 1
    EventsPerScan = 2
    ChannelCap = 1
    NoSession = NoSession
SPECIFICATION FairSpec
PROPERTIES ReRunCancelsActive
CHECK_DEADLOCK FALSE
