\* Two processes append their entries; nothing fails.
CONSTANTS
    Fixers = {p1, p2}
    hSafe = hSafe
    hGuarded = hGuarded
    hManual = hManual
    hBlocked = hBlocked
    hListed = hListed
    hUnbound = hUnbound
    Hints <- MCHints
    Registered = {hSafe, hGuarded, hManual, hBlocked, hListed}
    Class <- MCClass
    Blocklisted = {hListed}
    CommandLines <- SafeOnly
    MaxFaults = 0
    MaxCrashes = 0
    NoHint = NoHint
SPECIFICATION Spec
INVARIANTS EntriesAreLines
CHECK_DEADLOCK FALSE
