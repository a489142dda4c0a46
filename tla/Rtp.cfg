SPECIFICATION MCSpec
CONSTANTS
    M = 64
    Buf = 4
    Ahead = 24
    Distance = 2
    Scenes <- DownScenes
    Start = 62
    MaxPackets = 4
    MaxBurst = 1
    MaxControls = 2
    Slots = 3
INVARIANTS TypesOK Numbers Recorded
PROPERTIES KeyframesWhole Requests Reports Rates
CHECK_DEADLOCK FALSE
