SPECIFICATION SliceSpec
CONSTANTS
    None = None
    MaxNodes = 2
    Capacity = 3
    Lengths = {1, 2, 4}
    DigestMax = 2
    Deps <- AllDeps
    NoDep = None
    MaxSeq = 4
    ShortPath = 1
    ContextFaults = TRUE
    Inodes = {i1, i2}
    Writers = {w1, w2}
    Watched = i1
    VersionSlots = 1
    MaxStamp = 2
    a1 = a1
    a2 = a2
    v1 = v1
    Agents = {a1, a2}
    Group <- Grouped
    FileCount = 3
    Values = {v1}
    Queries <- TwoQueries
    MetaMax = 2
    CacheMax = 2
    MaxChange = 1
INVARIANTS NoHoles PathIsShown DigestsVouch VerdictSound WatcherHears IndexIsTrue CacheIsTrue
CHECK_DEADLOCK FALSE
