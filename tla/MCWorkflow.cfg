SPECIFICATION Spec
CONSTANTS
    MaxTasks = 2
    MaxSessions = 2
    None = None
    Dirs = 1
    Cmds = 1
    MaxExecs = 3
    Scenarios <- Instances
CHECK_DEADLOCK FALSE
INVARIANTS
    StepsRunOnce
    PersistedIsVerified
PROPERTIES
    SlotIsHeld
    EndedCommandIsSettled
