SPECIFICATION FairSpec
CONSTANTS
    MaxMsgs = 2
    SndBufSize = 1
    Rounds = 1
INVARIANTS WaitsSound
PROPERTIES EveryWaitEnds
CHECK_DEADLOCK FALSE
