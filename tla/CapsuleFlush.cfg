\* One run is saved and packed, on a disk that may be full.
CONSTANTS
    Users = {u1}
    MaxRuns = 1
    MaxCommands = 2
    MaxTime = 0
    Never = Never
SPECIFICATION StoreSpec
INVARIANTS CreatedIsValid
CHECK_DEADLOCK FALSE
