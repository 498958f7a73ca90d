CONSTANTS
  Policies = {"retain", "delete"}
  Foreign = {"owner", "group"}
  LeavesAnytime = FALSE
SPECIFICATION LiveSpec
INVARIANT TargetUnique
PROPERTIES ImplementsPair SyncEnds DeletionEnds
CHECK_DEADLOCK FALSE
