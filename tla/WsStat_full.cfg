\* More directories at the top level than the queues hold.
CONSTANTS
    d1 = d1
    d2 = d2
    d3 = d3
    d4 = d4
    d5 = d5
    d6 = d6
    Moved = Moved
    Dirs = {d1, d2, d3, d4, d5}
    TopDirs = {d1, d2, d3, d4, d5}
    Children <- FlatTree
    N = 2
    Capacity = 2
    MaxSteal = 16
SPECIFICATION FairSpec
PROPERTIES
    Termination
CHECK_DEADLOCK FALSE
