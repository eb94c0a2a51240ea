CONSTANTS
    Callers <- MCCallers
    Call <- MCCall
    Reqs <- MCReqs
    Kind <- MCKind
    MaxGen = 2
    MaxOwned = 2
    Scenarios <- MCScenarios
SPECIFICATION FairSpec
CHECK_DEADLOCK FALSE
INVARIANTS
    ElevationIsOwned
    MarkedIsSignalled
PROPERTIES
    ElevationEnds
