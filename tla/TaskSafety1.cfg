SPECIFICATION Spec
CONSTANTS
    t1 = t1
    Task = {t1}
    ResultTasks = {t1}
    LookupFaults = FALSE
    MaxFaults = 2
    MaxCrashes = 1
    MaxPerforms = 2
    MaxEvents = 2
INVARIANTS
    AtMostOneRun
    SuccessIsReal
PROPERTIES
    ExecutingDeletedOnlyIfEnded
    ResidualSparesExecuting
    FailTaskSparesOthers
    KeepsContract
