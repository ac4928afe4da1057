\* Two presses of r at any moment; more events than the channel holds.
CONSTANTS
    MaxReruns = 2
    EventsPerScan = 2
    ChannelCap = 1
    NoSession = NoSession
SPECIFICATION FairSpec
INVARIANTS ProgressIsAPrefix
PROPERTIES OutcomeIsComplete ScanningEnds
CHECK_DEADLOCK FALSE
