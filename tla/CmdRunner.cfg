\* A command of up to three processes that writes up to two bytes; the cap is one.
CONSTANTS
    Procs = {p1, p2, p3}
    Leader = p1
    Cap = 1
    MaxBytes = 2
SPECIFICATION FairSpec
INVARIANTS OutputIsWhole ResultIsHonest SurvivorsAreQuiet
PROPERTIES InterruptedCallReturns
CHECK_DEADLOCK FALSE
