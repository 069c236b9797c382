SPECIFICATION Spec
CONSTANTS
    Procs = {p0, p1}
    First = p0
    NPages = 3
    PagesPerTable = 2
    SharedPages = {1}
    RegionSizes = {1, 2}
    GlobalFrames = 1
    NFrames = 8
    MaxCalls = 3
CHECK_DEADLOCK FALSE
INVARIANTS
    FrameInOnePlace
PROPERTIES
    KeepsPages
    SharedFaultEnds
