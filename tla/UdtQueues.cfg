SPECIFICATION QueuesSpec
CONSTANTS
    Setter = {"s1", "s2"}
    Waiter = {"w1", "w2"}
    MaxSets = 6
    Socket = {"u1", "u2", "u3"}
    Thread = {"app", "rcv"}
    None = "none"
    Interval = 3
    Buffer = {"b1"}
    Size = 3
    MaxQueues = 2
    Num = 1
    Den = 2
    MaxDrift = 0
    Stale = 2
INVARIANTS WakesPaid SetKept QueuesSound
PROPERTIES SetSeen WorkersGoOn PoolGoesOn
CHECK_DEADLOCK FALSE
