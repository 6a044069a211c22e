SPECIFICATION SliceSpec
CONSTANTS
    a1 = a1
    a2 = a2
    Cpus = {a1, a2}
    ProcCount = 3
    MaxPriority = 0
    DefaultPriority = 0
    PriorityWeight = 1
    AgingDivisor = 1
    AgingMax = 0
    EventWeights = {0}
    EventMax = 0
    BoostWeight = 1
    BoostMax = 0
    VruntimeDivisor = 1
    BudgetPenalty = 1
    DeadlineBonus = 0
    Quotas = {2}
    Interval = 1
    MaxTick = 1
    MaxRun = 2
    MaxRestart = 1
    NCPU = 2
    NPROC = 3
    Calls <- OrderedCalls
    f = f
    d = d
    Callers = {a1, a2}
    InodeCount = 3
    FileNames = {f}
    DirNames = {d}
    DotDot = DotDot
    Requests <- SomeRequests
    Nobody = Nobody
INVARIANTS OnePlace BoundedOvertaking NoDeadlock InodesSound InodeLocksOrdered
SYMMETRY Symmetric
CHECK_DEADLOCK FALSE
