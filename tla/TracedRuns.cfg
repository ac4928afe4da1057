\* A command of up to three threads is traced with room for one event in the ring
\* and two in the result; then another run is saved while runs are read and packed.
CONSTANTS
    root = root
    peer = peer
    child = child
    Tasks = {root, peer, child}
    Programs <- MCPrograms
    MaxEvents = 2
    RingCap = 1
    ChanCap = 1
    NoCall = NoCall
    Users = {Tracer, u1}
    Tracer = Tracer
    MaxRuns = 2
    MaxCommands = 3
    MaxTime = 1
    Never = Never
SPECIFICATION Spec
INVARIANTS EventsAreReal MissingIsSaid TraceExitIsHonest LatestIsLast CapsuleIsWhole
PROPERTIES TraceReturns
CHECK_DEADLOCK FALSE
