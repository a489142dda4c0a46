SPECIFICATION FairSpec
CONSTANTS
    c = c
    s = s
    Nodes = {c, s}
    Dials <- OneDialer
    AutomaticHeart = TRUE
    SYNTICK = 0
    SYNTICKD = 0
    SYNTICKT = 0
    MaxConTick = 1
    MinHeartValue = 0
    MaxHeartValue = 0
    MaxConnects = 1
    MaxCalls = 1
    MaxConv = 1
    MaxCmds = 1
    MaxNet = 1
    MaxDup = 0
    MaxRestarts = 0
    MaxEvents = 1
    Stalls = FALSE
PROPERTY HandshakeEnds
