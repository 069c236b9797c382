SPECIFICATION FairSpec
CONSTANTS
    Root = p0
    None = None
    Size = 2
    Codes = {0, 1}
    Procs = {p0, p1, p2}
CHECK_DEADLOCK FALSE
INVARIANT WaitReportsExit
PROPERTY WaitersReturn
