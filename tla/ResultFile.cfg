SPECIFICATION Spec
CONSTANTS
    MAX_RESULT_SIZE = 3
    MaxSize = 5
INVARIANT ResultIsWholeFile
CHECK_DEADLOCK FALSE
