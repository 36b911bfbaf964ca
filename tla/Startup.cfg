SPECIFICATION FairSpec
CONSTANTS
    Before = 1
    After = 1
    MaxExits = 1
    MaxFailures = 1
INVARIANTS
    ReadyClosedOnce
    NoPresenceLeft
    CleanupIsLast
PROPERTIES
    SignalledRepExits
    StoppedRepUnlisted
    DownCellUnlisted
    UpCellListed
    StartupCompletes
CHECK_DEADLOCK FALSE
