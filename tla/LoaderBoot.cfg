SPECIFICATION FairSpec
CONSTANTS
    m1 = m1
    m2 = m2
    m3 = m3
    Module = {m1, m2, m3, absent}
    NoModule = NoModule
    Image <- MCImage
    Dependencies <- MCDependencies
INVARIANTS TypeOK DepsFirst OnlyFirstAgain AllInited
PROPERTY Returns
CHECK_DEADLOCK FALSE
