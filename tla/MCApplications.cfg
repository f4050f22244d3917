CONSTANTS
    Totals = {1, 3}
    MaxBursts = 2
    MaxNoise = 1
    ChipFifo = 2
    RxQueue = 1
    Transfer = 2
    Socket = 2
    Wrap32 = 8
    MaxClients = 2
    MaxBytes = 4
    Buf = 2
    RxBuffer = 3
    TxBuffer = 2
    Horizon = 4
    Timeout = 2
    Pause = 1
    Delay = 3
    INJECT_INTERVAL = 2
    Clamp = 5
    SPURIOUS_TARGET = 3
    MaxLate = 2
SPECIFICATION Spec
INVARIANTS TypeOK LossExact SnapshotAgrees EchoesOwnBytes BlockingShows NeverPoisoned
PROPERTIES InterruptsServed ServesAgain InjectionEnds
CHECK_DEADLOCK FALSE
