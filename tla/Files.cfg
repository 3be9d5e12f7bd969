SPECIFICATION Spec
CONSTANTS
    Archive <- MCArchive
    ModFs = "mod"
    ModFile <- MCModFile
    MaxIno = 7
    MaxPid = 4
    OPEN_MAX = 2
    OffMax = 2
    FileSize = 1
    MaxMounts = 2
    Workload <- MCWorkload
INVARIANTS TypeOK HeldOpen NamedAsAsked CacheLive CacheBounded
PROPERTY DescriptorTable
CHECK_DEADLOCK FALSE
