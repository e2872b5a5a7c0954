SPECIFICATION FairSpec
CONSTANTS
    Fid = {"f1", "f2"}
    NoFid = "nofid"
    Tag = {"t1", "t2"}
    NoTag = "notag"
    Requests <- TableRequests
    UniqueTags = TRUE
    MaxInFlight = 2
    MaxRecv = 4
INVARIANTS AnsweredOnce NothingForgotten FlushBarrier VersionFence ConflictOrder
PROPERTIES FidKept EventuallyAnswered
CHECK_DEADLOCK FALSE
