SPECIFICATION SystemSpec
CONSTANTS
    mbmod00 = mbmod00
    driver1 = driver1
    driver2 = driver2
    Name = {mbmod00, driver1, driver2, other}
    MbMod <- MCMbMod
    Minors = 2
    NoDevice = NoDevice
    NoName = NoName
    MaxBuses = 2
    PciBus = "pci"
    MaxDepth = 4
    Plan <- MCPlan
INVARIANTS InitrdKept DevicesUnique TypeOK CountsAgree EntriesNamed ScanFinds
PROPERTIES ScanReturns
CHECK_DEADLOCK FALSE
