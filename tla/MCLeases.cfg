SPECIFICATION FairSpec
CONSTANTS
    Procs = {p1, p2}
    Files = {f1, f2, f3}
    LeaseMax = 2
    Expiry = 1
    Expected = {0}
    MaxId = 2
    MaxTick = 0
    MaxVersion = 2
    Patched = {f1}
INVARIANTS HolderIsLast
PROPERTIES LeasesEnd
CHECK_DEADLOCK FALSE
