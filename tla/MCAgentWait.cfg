SPECIFICATION FairSpec
CONSTANTS
    N = 2
    Cap = 3
    SystemSlots = 1
    Files = {11}
    Start = {2}
    Peers <- ProgramPeers
    Calls <- ProgramCalls
    Timeouts = {0, 1}
    Intervals = {0}
    MaxSeq = 3
    MaxTick = 1
INVARIANTS NoLostWakeup TimeoutNotMissed SleeperHasSource
PROPERTIES FifoSpec WaitReturns
CHECK_DEADLOCK FALSE
