SPECIFICATION FairSpec
CONSTANTS
    c0 = c0
    c1 = c1
    reaper = reaper
    main = main
    w1 = w1
    w2 = w2
    rsem = rsem
    s1 = s1
    NoTCB = NoTCB
    Cores = {c0, c1}
    BootCore = c0
    TCBs = {reaper, main, w1}
    Reaper = reaper
    Main = main
    Sems = {rsem}
    ReaperSem = rsem
    InitialN <- MCInitialN
    Seconds = {1}
    JiffiesPerSecond = 1
    Word = 16
    MaxJiffies = 1
    MaxCalls <- MCMaxCalls
    YieldCost = 0
PROPERTIES
    ReadyRuns
    SleepersWake
    StoppedFreed
