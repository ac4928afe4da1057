\* Two updaters meet the stale lock of a crashed one.
CONSTANTS
    Updaters = {u1, u2}
    Newest = 2
    MaxCrashes = 1
    Overruns = FALSE
    NoOne = NoOne
SPECIFICATION Spec
INVARIANTS MutualExclusion
CHECK_DEADLOCK FALSE
