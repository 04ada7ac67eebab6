\* The target of a restore is in another filesystem.
CONSTANTS
    p1 = p1
    r1 = r1
    r2 = r2
    i1 = i1
    i2 = i2
    u1 = u1
    far = far
    NoEntry = NoEntry
    NoDir = NoDir
    Procs = {p1}
    Restorers = {r1}
    Elsewhere = {far}
    Ids = {i1}
    Owner <- MCOwner
    OnBehalf <- NoPairs
    Overlap <- NoPairs
    Joint <- SafeJoint
    Edits <- MCEdits
    MaxEdits = 1
    Faults <- NoPairs
    Durations = {0}
    MaxTime = 3
    MaxTries = 1
    MaxGen = 2
    KeepTime = 0
    ReleaseKeepTime = 1
    Grace = 1
    MaxScan = 0
    MaxRelease = 9
    MaxAlloc = 1
    MaxExtensions = 0
    MaxUserWorkspaces = 0
SPECIFICATION FullSpec
INVARIANTS
    ToldRemoved
CHECK_DEADLOCK FALSE
