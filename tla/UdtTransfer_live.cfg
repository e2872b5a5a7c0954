SPECIFICATION FairSpec
CONSTANTS
    MaxSeqNo = 7
    SeqNoTH = 3
    ISN = 7
    Msgs <- LongSecond
    RcvBufSize = 3
    SndBufSize = 2
    AckWinSize = 2
    MaxExp = 1
    NetCap = 1
PROPERTIES EventuallyReceived
CHECK_DEADLOCK FALSE
