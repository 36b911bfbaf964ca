SPECIFICATION Spec
CONSTANTS
    c1 = c1
    c2 = c2
    Guid = {c1, c2}
    MaxFaults = 1
SYMMETRY Symmetry
CHECK_DEADLOCK FALSE
INVARIANTS
    NoneEscapesStop
    EvacuationIsComplete
