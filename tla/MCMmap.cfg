SPECIFICATION MmapSpec
CONSTANTS
    p1 = p1
    p2 = p2
    Users = {p1, p2}
    VmaCount = 3
    VmaStart = 2
    Top = 4
    FilePages = 1
    Sizes = {1, 2, 3}
    Kinds <- Writable
INVARIANT NotUsedIsNobodys
SYMMETRY Symmetric
CHECK_DEADLOCK FALSE
