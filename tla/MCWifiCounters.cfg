CONSTANTS
    Callers = {a, b}
    Local = {a}
    MaxEvents = 6
SPECIFICATION FairSpec
INVARIANTS  AnswerIsFresh
PROPERTIES EveryRequestAnswered
CHECK_DEADLOCK FALSE
