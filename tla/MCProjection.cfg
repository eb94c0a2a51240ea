SPECIFICATION FairSpec
CONSTANTS
    Callers <- Crew
    Checkers = {1, 2}
    MaxAttempts = 2
    None = None
    Scenarios <- Instances
CHECK_DEADLOCK FALSE
INVARIANTS
    WindowIsCurrent
    SectionsAreKept
PROPERTIES
    ProjectionSettles
