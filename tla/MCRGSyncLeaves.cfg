CONSTANTS
  Policies = {"retain", "delete"}
  Foreign = {"owner"}
  LeavesAnytime = TRUE
SPECIFICATION Spec
INVARIANT TargetUnique
CHECK_DEADLOCK FALSE
