SPECIFICATION FairSchedSpec
CONSTANTS
    w1 = w1
    w2 = w2
    w3 = w3
    w4 = w4
    s1 = s1
    s2 = s2
    Workers <- MCWorkers
    Sessions <- MCSessions
    Requests <- MCRequests
    Owner <- MCOwner
    Request <- MCRequest
    MaxQueue = 2
    MaxActive <- MCMaxActive
    RejectedCap = 1
CHECK_DEADLOCK FALSE
INVARIANTS
    NoLostWakeup
PROPERTIES
    WaitersReturn
    ImplementsWorkSlot
