SPECIFICATION ClientSpec
CONSTANTS
    MaxTag = 3
    MaxFid = 2
    LongPaths = TRUE
    File <- Abc
    Listings <- Directories
    Size <- Sizes
    MaxData = 4
    U32Max = 99
    MaxCalls = 3
    MaxLen = 3
    MaxWrite = 2
    MaxNames = 3
    MAXWELEM = 2
    MaxQids = 2
    Tree <- Shares
INVARIANTS Accounted OwnReply OpensMeant BytesExact PolledOnce ListingSound
PROPERTIES ClientGoesOn
CHECK_DEADLOCK FALSE
