SPECIFICATION Spec
CONSTANTS
    Sock <- MCSock
    Host <- MCHost
    At <- MCAt
    To <- MCTo
    BufLimit = 0
    Early = {}
INVARIANTS NoStaleConnector
CHECK_DEADLOCK FALSE
