SPECIFICATION QueueSpec
CONSTANTS
    Nil = Nil
    Cores = {c0, c1}
    Nodes = {t1, t2}
INVARIANTS
    MutualExclusion
    HolderUninterrupted
    FlagRestored
PROPERTIES
    SpinnerInterruptible
    FifoQueue
