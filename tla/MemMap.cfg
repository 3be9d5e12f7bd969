SPECIFICATION Spec
CONSTANTS
    Frames = 16
    Entries = 4
    KrnlTables = 3
    Total = 11
    Image = 5
    Reserved = {}
    PageSize = 2
    MaxPages = 1
    UserPage = {12}
PROPERTY MapTakesEffect
CHECK_DEADLOCK FALSE
