SPECIFICATION FairSpec
CONSTANTS
    Sock <- MCSock
    Host <- MCHost
    At <- MCAt
    To <- MCTo
    BufLimit = 0
    Early = {21}
INVARIANTS EndsAgree
PROPERTIES BothConnect
CHECK_DEADLOCK FALSE
