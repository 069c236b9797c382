SPECIFICATION Spec
CONSTANTS
    None = None
    Readers = {r1}
    Size = 3
    Blocks = {0, 1, 2}
    MaxReads = 4
CHECK_DEADLOCK FALSE
INVARIANT OldestHasPredecessor
