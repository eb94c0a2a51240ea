SPECIFICATION Spec
CONSTANTS
  Trees = {"mcp", "tunnel", "command"}
  Command = "command"
  OutputLimit = 1
  MaxWritten = 2
  MaxTries = 2
  MaxProbes = 1
  MaxSessions = 2
  Scenarios <- Instances
CHECK_DEADLOCK FALSE
INVARIANTS
    NoOrphanRuns
    LaunchIsFaithful
PROPERTIES
    NothingIsLeft
    WaitsEnd
