CONSTANTS
    Scenarios <- MCScenarios
    Order <- MCOrder
    Parent <- MCParent
    Twin <- MCTwin
    Temp <- MCTemp
    Name <- MCName
    MaxOutside = 2
    MaxFaults = 2
SPECIFICATION Spec
CHECK_DEADLOCK FALSE
INVARIANTS
    NothingIsLost
    FilesStayWhole
    ResultsAreComplete
PROPERTIES
    OnlyOwnFilesChange
