CONSTANTS
    RX_SILENCE = 4
    PROBE_INTERVAL = 2
    JOIN_POLL = 1
    JOIN_BUDGET = 6
    RETRY_INTERVAL = 4
    LINK_INTERVAL = 2
    LINK_QUIET_PASSES = 1
    MaxDelay = 2
    Wrap = 2
SPECIFICATION FairSpec
PROPERTIES SettingsReapplied
