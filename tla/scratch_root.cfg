CONSTANTS
    TeamSize = 2
    ScratchSize = 6
    Shape <- Chain
    Scripts <- Stale
SPECIFICATION FairSpec
PROPERTY OpsComplete
CHECK_DEADLOCK FALSE
