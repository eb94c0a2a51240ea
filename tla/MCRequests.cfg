SPECIFICATION Spec
CONSTANTS
    run = run
    again = again
    next = next
    file = file
    file2 = file2
    ctl = ctl
    ctl2 = ctl2
    aside = aside
    look = look
    s1 = s1
    s2 = s2
    k1 = k1
    k2 = k2
    k3 = k3
    Workers <- MixedCrew
    Sessions = {s1, s2}
    Requests = {k1, k2, k3}
    Owner <- Owners
    Request <- Ids
    Tool <- Jobs
    MaxQueue = 1
    MaxActive <- LaneOfOne
    RejectedCap = 0
    MaxSessions = 2
    Scenarios <- Mixed
CHECK_DEADLOCK FALSE
INVARIANTS
    OutcomesAreTrue
    QuietAfterJoin
    EarlyCancelHonoured
