CONSTANTS
    NumBlocks = 4
    EraseSize = 4
    WriteSize = 1
    HEADER_SIZE = 2
    MaxMtd = 3
    MAX_PARTITIONS = 6
    Sector = 2
    BmlSize = 4
    MAX_PART = 3
    NamePrefixes <- MCNamePrefixes
    StorageJobs <- MCStorageJobs
    Fstabs <- MCFstabs
    Files <- MCFiles
    MaxCall = 8
    MaxCalls = 2
    MaxFaults = 1
    MaxOutside = 2
    MaxData = 5
    MaxFail = 8
    MaxLoss = 24
    MaxRuns = 3
    MaxBuFail = 14
SPECIFICATION Spec
CHECK_DEADLOCK FALSE
INVARIANTS FlashKept MessageKept   
PROPERTY  MediaKept
