SPECIFICATION EsFairSpec
CONSTANTS
    Flows = {1, 2}
    Sizes = {1, 3}
    Configs <- SomeConfigs
    MAX_ZOMBIE_LIST_SIZE = 2
    MaxPackets = 4
    MaxTime = 2
INVARIANTS EsInv StampIsSighting
PROPERTIES ImplementsSred ListFreezes
\* All packets may have come, and a disc may be refused.
CHECK_DEADLOCK FALSE
