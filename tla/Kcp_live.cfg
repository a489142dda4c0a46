SPECIFICATION FairSpec
CONSTANTS
    SndWnd = 2
    RcvWnd = 1
    FastResend = 0
    DeadLink = 1
    NoCwnd = FALSE
    Mss = 1
    MsgSizes = {1}
    MaxStream <- Short
    MaxDup = 0
    MaxNet = 2
PROPERTIES EventuallyDelivered
