SPECIFICATION FairSpec
CONSTANTS
    Attempts = 2
    Threads <- Crew
    Kind <- Kinds
    Scenarios <- Mixed
CHECK_DEADLOCK FALSE
INVARIANTS
    LayersAreExact
    OutagesReachTheUser
    StopIsFinal
PROPERTIES
    EverythingEnds
