\* One collector with a budget, and one that only the scan's context bounds.
CONSTANTS
    N = 2
    Budgeted = {1}
    MCAnswers = {"clean", "denied", "cut", "broken"}
    Answers <- TheAnswers
    NoAnswer = NoAnswer
    NoResult = NoResult
SPECIFICATION FairSpec
INVARIANTS ReturnedAsAnnounced PunctualAnswerSurvives IncompleteIsMarked
PROPERTIES Promise CallReturns LateBodyEnds
CHECK_DEADLOCK FALSE
