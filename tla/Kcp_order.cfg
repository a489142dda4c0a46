SPECIFICATION MCSpec
CONSTANTS
    SndWnd = 2
    RcvWnd = 2
    FastResend = 1
    DeadLink = 2
    NoCwnd = TRUE
    Mss = 1
    MsgSizes = {1, 2}
    MaxStream <- Short
    MaxDup = 1
    MaxNet = 2
INVARIANTS InOrder NothingLost WindowsKept
PROPERTIES ImplementsStream Forward
