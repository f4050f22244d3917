CONSTANTS
    c1 = c1
    c2 = c2
    t1 = t1
    t2 = t2
    t3 = t3
    None = None
    Cores = {c1, c2}
    Tasks = {t1, t2, t3}
    Wakers = {w1, w2}
    Home <- HomeOf
SPECIFICATION FairSpec
INVARIANTS NoLostWake SignalHeld
PROPERTIES EveryWakePolls
