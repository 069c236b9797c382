SPECIFICATION PtrSpec
CONSTANTS
    Threads = {t1, t2, t3}
    Creator = t1
    MaxHandles = 3
CHECK_DEADLOCK FALSE
INVARIANTS
    ObjAliveWhileHeld
    IntermediateDeletedOnce
    NothingLeaks
PROPERTY NoResurrection
