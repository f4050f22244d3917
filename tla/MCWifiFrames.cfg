CONSTANTS
    N_RX = 1
    N_TX = 1
    RX_BURST = 1
    RX_SILENCE = 2
    PROBE_INTERVAL = 1
    LINK_QUIET_PASSES = 1
    Fifo = 2
    Window = 1
    Seqs = 2
    Wrap = 2
SPECIFICATION FairSpec
INVARIANTS ReceiveAccounted SendAccounted
PROPERTIES QueuesMove
