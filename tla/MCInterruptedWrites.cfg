CONSTANTS
    Length = 3
    BufSize = 2
    Data = 3
    Capacity = 4
    Raises = 2
SPECIFICATION Spec
INVARIANT StreamIsBlocks
PROPERTY Terminates
CHECK_DEADLOCK FALSE
