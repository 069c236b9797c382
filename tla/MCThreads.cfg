SPECIFICATION Spec
CONSTANTS
    c0 = c0
    c1 = c1
    reaper = reaper
    main = main
    w1 = w1
    w2 = w2
    rsem = rsem
    s1 = s1
    NoTCB = NoTCB
    Cores = {c0, c1}
    BootCore = c0
    TCBs = {reaper, main, w1, w2}
    Reaper = reaper
    Main = main
    Sems = {rsem, s1}
    ReaperSem = rsem
    InitialN <- MCInitialN
    Seconds = {0, 2}
    JiffiesPerSecond = 1
    Word = 16
    MaxJiffies = 2
    MaxCalls <- MCMaxCalls
    YieldCost = 1
SYMMETRY Workers
INVARIANTS
    TypeOK
    AtMostOneQueue
    NoThreadLost
    CoreConsistent
    PreemptionSafe
    NoLostWakeup
    ReaperTokens
PROPERTIES
    NoDueSleeperSkipped
