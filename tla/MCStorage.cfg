SPECIFICATION SliceSpec
CONSTANTS
    p1 = p1
    p2 = p2
    b1 = b1
    b2 = b2
    b3 = b3
    b4 = b4
    Ops = {p1, p2}
    Blocks = {b1, b2, b3, b4}
    Values = {0, 1}
    None = None
    MaxOpBlocks = 2
    LogSize = 4
    DataBlocks = 3
    Users = {p1, p2}
    VmaCount = 3
    VmaStart = 2
    Top = 3
    FilePages = 1
    Sizes = {1, 2}
    Kinds <- Writable
INVARIANTS SleepersAreWoken ReservationHolds MappingsSound
PROPERTIES CrashIsAtomic
SYMMETRY Symmetric
