SPECIFICATION Spec
CONSTANTS
    Frames <- FourFrames
    M = 16
    Start = 12
    Depth = 1
    MaxDepth = 2
    BufSize = 4
    Distance = 1
    MaxDups = 1
INVARIANT LateDiscarded
CHECK_DEADLOCK FALSE
