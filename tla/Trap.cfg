SPECIFICATION Spec
CONSTANTS
    Thread = {1, 2}
    NEWLAND_KLOG_SIZE = 40
    Lens = {1}
    HandlerLens = {8}
    SizeT = 256
    MaxPos = 64
    IRQ = {0, 4, 8}
    Eras <- MCEras
INVARIANTS TypeOK NoneInService LogWithin ClockAhead SecondsCount
PROPERTIES AcksOwn TicksServed
CHECK_DEADLOCK FALSE
