\* A command of two processes that writes nothing.
CONSTANTS
    Procs = {p1, p2}
    Leader = p1
    Cap = 1
    MaxBytes = 0
SPECIFICATION Spec
INVARIANTS TimeoutKillsChildren
CHECK_DEADLOCK FALSE
