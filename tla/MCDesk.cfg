SPECIFICATION FairSpec
CONSTANTS
    Callers <- Crew
    None = None
    Scenarios <- Instances
CHECK_DEADLOCK FALSE
INVARIANTS
    ChoicesHoldAtLogon
    ServedIsCurrent
PROPERTIES
    SettingsSurvive
    DesktopResponds
