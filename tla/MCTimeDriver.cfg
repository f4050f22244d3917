CONSTANTS
    Irq = Irq
    Free = Free
    Tasks = {t1, t2}
    W = 5
    Clamp = 4
    MaxStall = 2
    Horizon = 7
    MAX = 99
    Deadlines <- DeadlineSet
SPECIFICATION FairSpec
INVARIANTS AlarmCovers RetryDrains
PROPERTIES EveryDeadlineFires
