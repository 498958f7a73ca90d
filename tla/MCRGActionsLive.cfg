SPECIFICATION LiveSpec
CONSTANTS
  Actions = {a1}
  Bad = Bad
  None = None
  Broken = Broken
  StaleCache = FALSE
  Aborts = TRUE
  UserWaits = TRUE
  UserEdits = TRUE
  EmptyGroup = FALSE
PROPERTIES ActionReported ActionProcessed
CHECK_DEADLOCK FALSE
