SPECIFICATION FairSpec
CONSTANTS
    e1 = e1
    e2 = e2
    s1 = s1
    s2 = s2
    d1 = d1
    None = None
    Executions = {e1, e2}
    Sessions = {s1, s2}
    Controllers = {d1}
    TaskOf <- OneTask
    MaxActive = 2
    MaxTerminal = 1
    MaxToken = 2
    Scenarios <- Mixed
CHECK_DEADLOCK FALSE
INVARIANTS
    AnswersAreDurable
    IntentsAreHonoured
    OwnershipHolds
PROPERTIES
    Converges
