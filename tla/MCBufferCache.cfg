SPECIFICATION Spec
CONSTANTS
    None = None
    Readers = {r1, r2}
    Size = 3
    Blocks = {0, 1, 3, 5}
    MaxReads = 5
CHECK_DEADLOCK FALSE
INVARIANTS
    ReadsItsBlock
    CacheBounded
PROPERTY ReadsEnd
