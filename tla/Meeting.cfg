SPECIFICATION MeetingSpec
CONSTANTS
    SendTask = {"s1", "s2"}
    RecvTask = {"r1", "r2"}
    MaxSent <- Sends
    Cap = 3
    MaxFaults = 2
    Name = {"n1", "n2"}
    Bucket = {"b"}
    BucketOf <- TheBucket
    Call = {"c1", "c2"}
    Asks <- TheAsks
    Stream = {"s1", "s2", "s3"}
    Holds <- TheHolds
    NoOne = NoOne
INVARIANTS NonceSound NothingRefused HandshakeSound NamesSound
PROPERTIES ImplementsChannel TransportGoesOn CallsEnd
CHECK_DEADLOCK FALSE
