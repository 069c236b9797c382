SPECIFICATION Spec
CONSTANTS
    Base = 1024
    Limit = 1536
    FrameSize = 32
    Word = 4096
    Sizes = {0, 1, 33, 90, 3000, 4090}
    MaxEntries = 6
    Programs <- MCPrograms
    ArgLists <- MCArgLists
    StackSize = 256
CHECK_DEADLOCK FALSE
INVARIANTS
    RegionsTile
    ProgramStays
    ArgsInStack
PROPERTY AddressSpace
