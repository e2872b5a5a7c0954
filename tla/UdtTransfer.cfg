SPECIFICATION Spec
CONSTANTS
    MaxSeqNo = 15
    SeqNoTH = 7
    ISN = 14
    Msgs <- Overtaking
    RcvBufSize = 3
    SndBufSize = 2
    AckWinSize = 2
    MaxExp = 1
    NetCap = 2
INVARIANTS Consistent NothingLost
PROPERTIES Implements
CHECK_DEADLOCK FALSE
