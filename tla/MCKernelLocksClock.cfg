SPECIFICATION LocksSpec
CONSTANTS
    NCPU = 2
    NPROC = 2
    Calls = {"yield", "agent_wait"}
INVARIANT NoDeadlock
CHECK_DEADLOCK FALSE
