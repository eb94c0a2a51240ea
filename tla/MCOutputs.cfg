SPECIFICATION Spec
CONSTANTS
  Commands = {"a", "b"}
  MaxPending = 3
  MaxFragment = 5
  MaxPrivate = 3
  MaxLocal = 2
  Inline = 2
  MaxMade = 7
  Limits = {1, 2, 4}
  Scenarios <- Instances
CHECK_DEADLOCK FALSE
INVARIANTS
    OutputIsDelivered
    HandlesAgree
    PagesAreWhole
