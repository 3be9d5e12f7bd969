SPECIFICATION ServedSpec
CONSTANTS
    Frames = 12
    Entries = 5
    KrnlTables = 2
    Total = 10
    Image = 4
    Reserved = {7}
    PageSize = 2
    MaxPages = 2
    UserPage = {8, 10}
INVARIANTS TypeOK UsedCounted FramesOwned KernelShared
CHECK_DEADLOCK FALSE
