\* Processes may be killed between any two file operations.
CONSTANTS
    p1 = p1
    i1 = i1
    i2 = i2
    u1 = u1
    NoEntry = NoEntry
    NoDir = NoDir
    Procs = {p1, p2}
    Ids = {i1}
    Owner <- MCOwner
    OnBehalf <- NoPairs
    Overlap <- CrashPairs
    Faults <- AllFaults
    Durations = {1}
    MaxTime = 3
    MaxTries = 1
    MaxGen = 2
    KeepTime = 0
    ReleaseKeepTime = 1
    Grace = 1
    MaxScan = 1
    MaxRelease = 9
    MaxAlloc = 1
    MaxExtensions = 0
    MaxUserWorkspaces = 0
SPECIFICATION Spec
SYMMETRY SessionSymmetry
INVARIANTS
    CrashSafe
    LiveHasDir
PROPERTIES
    NoOverwrite
CHECK_DEADLOCK FALSE
