\* Two updaters, one crash, locks that get old when their owner is dead, and both
\* updaters at a stale one.
CONSTANTS
    Updaters = {u1, u2}
    Newest = 3
    MaxCrashes = 1
    Overruns = FALSE
    NoOne = NoOne
SPECIFICATION FairSpec
INVARIANTS OnlyTheftInterleaves OnlyOvertakingLosesBoth
PROPERTIES SwapIsAllOrNothing LockIsFreedAgain
CHECK_DEADLOCK FALSE
