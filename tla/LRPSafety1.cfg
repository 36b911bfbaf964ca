SPECIFICATION Spec
CONSTANTS
    i1 = i1
    r1 = r1
    None = None
    Local = {i1}
    Remote = {r1}
    LookupFaults = FALSE
    MaxFaults = 2
    MaxCrashes = 1
    MaxEvents = 1
PROPERTIES
    RoutableKept
    ResidualOnlyIfGone
    KeepsLRPContract
