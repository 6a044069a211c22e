SPECIFICATION Spec
CONSTANTS
    Slots = {s1}
    None = None
    Buckets = 2
    Intervals = {1, 2}
    Calls = {"create", "exit", "reap"}
    Races = {"exit"}
    MaxStarts = 2
    MaxTick = 6
SYMMETRY Symmetric
INVARIANT ListsEnd
CHECK_DEADLOCK FALSE
