SPECIFICATION Spec
CONSTANTS
    MaxPid = 3
    CHILD_MAX = 2
    SCHED_RECCOUNT = 1
    MaxSegs = 0
    Calls = {"exec", "sti"}
    Signals = {}
    IrqFlagsKept = TRUE
INVARIANT EntryNotForgotten
CHECK_DEADLOCK FALSE
