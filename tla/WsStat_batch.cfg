\* A directory with five subdirectories: batches of two paths.
CONSTANTS
    d1 = d1
    d2 = d2
    d3 = d3
    d4 = d4
    d5 = d5
    d6 = d6
    Moved = Moved
    Dirs = {d1, d2, d3, d4, d5, d6}
    TopDirs = {d1}
    Children <- WideTree
    N = 2
    Capacity = 8
    MaxSteal = 16
SPECIFICATION Spec
INVARIANTS
    NoOverlap
CHECK_DEADLOCK FALSE
