SPECIFICATION FairSpec
CONSTANTS
    t1 = t1
    Task = {t1}
    ResultTasks = {t1}
    LookupFaults = TRUE
    MaxFaults = 1
    MaxCrashes = 1
    MaxPerforms = 2
    MaxEvents = 1
PROPERTIES
    LostTaskEnds
    ContainersReaped
