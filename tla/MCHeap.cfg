SPECIFICATION HeapsSpec
CONSTANTS
    len = 24
    Requests = {0, 1, 9, 20}
    Candidates = 2
    Word = 4096
INVARIANTS
    Tiled
    FreeListExact
    OwnedIntact
