SPECIFICATION StructuresSpec
CONSTANTS
    MaxSeqNo = 15
    SeqNoTH = 7
    ISN = 13
    Size = 4
    Span = 4
    MaxRun = 6
    Unit = 2
    MaxUnits = 2
    SndBufSize = 3
    WinSize = 3
    MaxAckNo = 3
PROPERTIES RcvImplementsSet
