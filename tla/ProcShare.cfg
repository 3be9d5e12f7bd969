SPECIFICATION ShareSpec
CONSTANTS
    MaxPid = 4
    CHILD_MAX = 3
    SCHED_RECCOUNT = 5
    MaxSegs = 0
    Calls = {"exec", "sti", "nomem"}
    Signals = {}
    IrqFlagsKept = TRUE
INVARIANTS FairShare LoadingNotRun
PROPERTIES EveryProcessScheduled NoOvertaking
CHECK_DEADLOCK FALSE
