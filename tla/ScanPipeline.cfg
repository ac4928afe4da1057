\* Two collectors, three engines at a time.
CONSTANTS
    N = 2
    Verdicts = {"ok", "timeout", "permission_denied"}
    Outputs <- MCOutputs
    Options <- MCOptions
    idA = idA
    idB = idB
    idDecl = idDecl
    idOpt = idOpt
    EvidenceOnly = {idDecl}
    Optional = {idOpt}
    CiIds = {idB}
    MCThresholds = {2, 5}
    Undecided = Undecided
SPECIFICATION Spec
INVARIANTS EventLogIsWellFormed EventsTellTheReport AggregateIsFaithful
    SevereIsShown ExitIsHonest
CHECK_DEADLOCK FALSE
