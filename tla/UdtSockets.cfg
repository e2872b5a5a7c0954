SPECIFICATION FairSpec
CONSTANTS
    Local = {11}
    MaxConn = 2
    Peer = {21, 22}
    Backlog = 1
    MaxPatience = 1
INVARIANTS TablesAgree NoDangling
PROPERTIES CollectorGoesOn
CHECK_DEADLOCK FALSE
