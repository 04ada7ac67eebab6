\* root allocates a workspace for a user.
CONSTANTS
    p1 = p1
    i1 = i1
    i2 = i2
    u1 = u1
    NoEntry = NoEntry
    NoDir = NoDir
    Procs = {p1}
    Ids = {i1, i2}
    Owner <- MCOwner
    OnBehalf <- RootForUser
    Overlap <- NoPairs
    Faults <- NoPairs
    Durations = {1}
    MaxTime = 5
    MaxTries = 1
    MaxGen = 1
    KeepTime = 5
    ReleaseKeepTime = 2
    Grace = 3
    MaxScan = 1
    MaxRelease = 9
    MaxAlloc = 1
    MaxExtensions = 0
    MaxUserWorkspaces = 0
SPECIFICATION Spec
INVARIANTS
    ExpiredRetained
CHECK_DEADLOCK FALSE
