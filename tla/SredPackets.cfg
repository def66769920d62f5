SPECIFICATION Spec
CONSTANTS
    Flows = {1}
    Sizes = {1, 3}
    Configs <- PacketConfigs
    MAX_ZOMBIE_LIST_SIZE = 2
    MaxPackets = 3
PROPERTY OverflowOnlyWhenFull
\* All packets may have come.
CHECK_DEADLOCK FALSE
