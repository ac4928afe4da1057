\* One process, every gate, two failing writes of the audit log.
CONSTANTS
    Fixers = {p1}
    hSafe = hSafe
    hGuarded = hGuarded
    hManual = hManual
    hBlocked = hBlocked
    hListed = hListed
    hUnbound = hUnbound
    Hints <- MCHints
    Registered = {hSafe, hGuarded, hManual, hBlocked, hListed}
    Class <- MCClass
    Blocklisted = {hListed}
    CommandLines <- OneLine
    MaxFaults = 2
    MaxCrashes = 1
    NoHint = NoHint
SPECIFICATION Spec
INVARIANTS SuccessIsTrue
PROPERTIES MutationIsAnnounced NothingRunsUnasked
CHECK_DEADLOCK FALSE
