SPECIFICATION FairSpec
CONSTANTS
    Flows = {1, 2}
    Sizes = {1, 3}
    Configs <- SomeConfigs
    MAX_ZOMBIE_LIST_SIZE = 2
    MaxPackets = 5
INVARIANTS TypeOK Accounted Evidence HitLevel
PROPERTIES ImplementsDisc IdleAccepts
\* All packets may have come, and a disc may be refused.
CHECK_DEADLOCK FALSE
