CONSTANTS
    MSS = 2
    SndBuf = 4
    SndQueueLen = 5
    TcpWnd = 4
    MaxRtx = 1
    SynMaxRtx = 1
    PeerWnds = {0, 2, 4}
    MayShrink = FALSE
    MaxCwnd = 4
    MaxBytes = 4
    MaxRcv = 2
SPECIFICATION Spec
INVARIANTS StreamKept AccountsAgree AckNotForgotten PromiseKept
CHECK_DEADLOCK FALSE
