SPECIFICATION FairToolsSpec
CONSTANTS
    c1 = c1
    c2 = c2
    s1 = s1
    Procs = {c1, c2, s1}
    NoProc = NoProc
    Names = {t1}
    NoName = NoName
    ToolMax = 1
    RequestMax = 2
    Services = {s1, c2}
    Clients = {c1, c2}
    ProcGroup <- TwoGroups
    Copyouts = {TRUE, FALSE}
    MaxId = 3
INVARIANTS CallersKeepSlots NoMissedWakeup SlotsHaveCallers
PROPERTIES Promised CallReturns
CHECK_DEADLOCK FALSE
