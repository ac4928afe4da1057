\* One updater, no crash: only I/O errors.
CONSTANTS
    Updaters = {u1}
    Newest = 2
    MaxCrashes = 0
    Overruns = FALSE
    NoOne = NoOne
SPECIFICATION Spec
PROPERTIES FailureLeavesTarget
CHECK_DEADLOCK FALSE
