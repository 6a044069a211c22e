SPECIFICATION FairSpec
CONSTANTS
    NPROC = 3
    WorkflowMax = 1
    MemberMax = 2
    MaxPid = 3
    Calls <- ProgramCalls
INVARIANTS MemberCountExact CascadeComplete
PROPERTIES TerminatingIsClosed ExitReclaimsWorkflow
CHECK_DEADLOCK FALSE
