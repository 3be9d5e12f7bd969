SPECIFICATION Spec
CONSTANTS
    MaxPid = 3
    CHILD_MAX = 2
    SCHED_RECCOUNT = 1
    MaxSegs = 1
    Calls = {"create", "exec", "destroy"}
    Signals = {}
    IrqFlagsKept = FALSE
INVARIANTS TypeOK ListConsistent ThreadsUnique WindowChildren
CHECK_DEADLOCK FALSE
