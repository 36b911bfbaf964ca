SPECIFICATION Spec
CONSTANTS
    c1 = c1
    c2 = c2
    Guid = {c1}
    MaxFaults = 0
CHECK_DEADLOCK FALSE
PROPERTY NoEvacuatingLeft
