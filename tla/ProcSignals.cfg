SPECIFICATION Spec
CONSTANTS
    MaxPid = 2
    CHILD_MAX = 1
    SCHED_RECCOUNT = 1
    MaxSegs = 0
    Calls = {"create", "destroy", "sti", "cleanup", "sigenter", "handler"}
    Signals = {"SIGKILL", "SIGFPE"}
    IrqFlagsKept = TRUE
INVARIANTS OneRunning ListConsistent
CHECK_DEADLOCK FALSE
