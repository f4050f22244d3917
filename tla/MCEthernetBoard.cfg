CONSTANTS
    N_RX = 2
    N_TX = 1
    Fifo = 3
    MaxBatch = 3
    LinkWait = 2
    AllMulticast = TRUE
    MaxIn = 4
    MaxOut = 2
    HubWait = 2
SPECIFICATION BoardSpec
INVARIANTS BoardTypeOK ReceiveLossless SendAccounted DeadInterfaceSaysSo
PROPERTIES KeepsOrder OneCompleter BoardSettles SendQueueMoves FetchedIsReceived
CHECK_DEADLOCK FALSE
