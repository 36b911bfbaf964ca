SPECIFICATION FairSpec
CONSTANTS
    c1 = c1
    c2 = c2
    Guid = {c1}
    MaxFaults = 1
CHECK_DEADLOCK FALSE
PROPERTIES
    ShutdownEnds
    EvacuationEnds
    BulkerKeepsSyncing
