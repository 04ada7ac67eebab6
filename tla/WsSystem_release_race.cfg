\* ws_release while the expirer cleans strays.
CONSTANTS
    p1 = p1
    i1 = i1
    i2 = i2
    u1 = u1
    NoEntry = NoEntry
    NoDir = NoDir
    Procs = {p1}
    Ids = {i1}
    Owner <- MCOwner
    OnBehalf <- NoPairs
    Overlap <- ReleaseDuringScan
    Faults <- NoPairs
    Durations = {1, 2}
    MaxTime = 8
    MaxTries = 2
    MaxGen = 1
    KeepTime = 1
    ReleaseKeepTime = 5
    Grace = 3
    MaxScan = 1
    MaxRelease = 0
    MaxAlloc = 1
    MaxExtensions = 1
    MaxUserWorkspaces = 0
SPECIFICATION Spec
INVARIANTS
    ReleasedRetained
CHECK_DEADLOCK FALSE
