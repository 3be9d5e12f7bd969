SPECIFICATION FairSpec
CONSTANTS
    MaxPid = 2
    CHILD_MAX = 2
    SCHED_RECCOUNT = 1
    MaxSegs = 1
    Calls = {"create", "sti", "exec"}
    Signals = {}
    IrqFlagsKept = TRUE
PROPERTY EveryProcessScheduled
CHECK_DEADLOCK FALSE
