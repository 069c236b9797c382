SPECIFICATION FilesSpec
CONSTANTS
    BlockSize = 2
    RefsPerBlock = 2
    Direct = 2
    FileSizes = {0, 3, 17, 32}
    HoleSets <- MCHoleSets
    Offsets = {0, 1, 2, 3, 5, 8, 15, 16, 17, 20, 31, 32, 33}
    Lengths = {0, 1, 2, 5, 33}
    Super <- MCSuper
    SuperOffset = 2
    DescSize = 1
    Disk <- MCDisk
    Nodes <- MCNodes
    Names <- MCNames
    Garbage <- MCGarbage
    MaxLinks = 4
INVARIANTS
    ReadAllExact
    FindCorrect
PROPERTIES
    ReadEnds
    FindReturns
