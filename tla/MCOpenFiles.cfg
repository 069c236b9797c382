SPECIFICATION Spec
CONSTANTS
    Procs = {p0, p1}
    First = p0
    Size = 3
    FileSize = 3
    Requests = {2}
    Seeks = {1, 4}
    Word = 5
    MaxFiles = 4
    MaxTotal = 6
CHECK_DEADLOCK FALSE
INVARIANT PositionKept
