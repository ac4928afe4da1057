\* An updater that waits while another one dies in its rollback, and the lock ages.
CONSTANTS
    Updaters = {u1, u2}
    Newest = 2
    MaxCrashes = 1
    Overruns = FALSE
    NoOne = NoOne
SPECIFICATION Spec
INVARIANTS RecoveryPoint
CHECK_DEADLOCK FALSE
