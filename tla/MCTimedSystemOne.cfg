CONSTANTS
    c0 = c0
    c3 = c3
    t1 = t1
    t2 = t2
    None = None
    Irq = Irq
    Device = Device
    Free = Free
    Cores = {c0}
    Tasks = {t1, t2}
    Home <- HomeOfOne
    IrqCore = c0
    Mixed = {t1}
    W = 3
    Clamp = 2
    MaxStall = 1
    Horizon = 3
    MAX = 9
    Deadlines <- DeadlineSet
SPECIFICATION FairSpec
INVARIANTS SleepersCovered
PROPERTIES KeepsPromise
