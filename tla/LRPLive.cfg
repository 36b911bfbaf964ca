SPECIFICATION FairSpec
CONSTANTS
    i1 = i1
    r1 = r1
    None = None
    Local = {i1}
    Remote = {r1}
    LookupFaults = TRUE
    MaxFaults = 1
    MaxCrashes = 1
    MaxEvents = 0
PROPERTIES
    RecordsReaped
    EvacuationDrains
    DuplicateGoes
    RunningRecorded
