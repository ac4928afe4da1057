\* Two processes that run up to three commands between them.
CONSTANTS
    Users = {u1, u2}
    idA = idA
    idB = idB
    lowA = lowA
    Ids = {idA, idB, lowA}
    UpperOf <- MCUpperOf
    Found <- MCFound
    Commands <- MCCommands
    InitialFiles <- MCInitialFiles
    MaxCommands = 3
    MaxTime = 2
    NoFile = NoFile
    Torn = Torn
    NoFp = NoFp
    NoReport = NoReport
SPECIFICATION Spec
PROPERTY SweepKeepsSuppressing
CHECK_DEADLOCK FALSE
