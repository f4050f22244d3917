CONSTANTS
    Callers = {a, b}
    Local = {}
    MaxEvents = 6
SPECIFICATION Spec
INVARIANTS SomeMeansFresh
CHECK_DEADLOCK FALSE
