\* One workspace, the overlaps that are safe, no faults.
CONSTANTS
    p1 = p1
    i1 = i1
    i2 = i2
    u1 = u1
    NoEntry = NoEntry
    NoDir = NoDir
    Procs = {p1}
    Ids = {i1}
    Owner <- MCOwner
    OnBehalf <- NoPairs
    Overlap <- SafePairs
    Faults <- NoPairs
    Durations = {1, 2}
    MaxTime = 6
    MaxTries = 2
    MaxGen = 2
    KeepTime = 1
    ReleaseKeepTime = 2
    Grace = 3
    MaxScan = 1
    MaxRelease = 9
    MaxAlloc = 1
    MaxExtensions = 1
    MaxUserWorkspaces = 0
SPECIFICATION Spec
INVARIANTS
    TypeOK
    Safe
    LiveHasDir
    ReleasedRetained
    ExpiredRetained
    Recoverable
    ExtensionBudget
PROPERTY
    NoOverwrite
\* The clock stops at MaxTime; a ws_release that sleeps then never wakes up.
CHECK_DEADLOCK FALSE
