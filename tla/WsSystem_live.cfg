\* What must eventually happen.
CONSTANTS
    p1 = p1
    i1 = i1
    i2 = i2
    u1 = u1
    NoEntry = NoEntry
    NoDir = NoDir
    Procs = {p1}
    Ids = {i1}
    Owner <- MCOwner
    OnBehalf <- NoPairs
    Overlap <- ExpirerPairs
    Faults <- PurgeFaults
    Durations = {1}
    MaxTime = 3
    MaxTries = 1
    MaxGen = 1
    KeepTime = 0
    ReleaseKeepTime = 1
    Grace = 1
    MaxScan = 0
    MaxRelease = 9
    MaxAlloc = 9
    MaxExtensions = 0
    MaxUserWorkspaces = 0
SPECIFICATION FairSpec
PROPERTIES
    ExpiredLeaves
    DueDeleted
    TrashReclaimed
CHECK_DEADLOCK FALSE
