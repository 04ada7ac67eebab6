\* Three workers, a directory with two subdirectories: every batch is one path.
CONSTANTS
    d1 = d1
    d2 = d2
    d3 = d3
    d4 = d4
    d5 = d5
    d6 = d6
    Moved = Moved
    Dirs = {d1, d2, d3}
    TopDirs = {d1}
    Children <- WideTree
    N = 3
    Capacity = 8
    MaxSteal = 16
SPECIFICATION FairSpec
INVARIANTS
    TypeOK
    NoOverlap
    StopsWhenAllRead
    StatSafe
PROPERTIES
    Termination
CHECK_DEADLOCK FALSE
