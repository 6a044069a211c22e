SPECIFICATION Spec
CONSTANTS
    Slots = {s1, s2}
    None = None
    Buckets = 2
    Intervals = {1, 2}
    Calls = {"create", "set", "stop", "done", "wait", "cascade", "exit", "reap"}
    Races = {}
    MaxStarts = 2
    MaxTick = 3
SYMMETRY Symmetric
INVARIANTS WheelSound InItsBucket NoHeartbeatMissed QuietAfterStop
CHECK_DEADLOCK FALSE
