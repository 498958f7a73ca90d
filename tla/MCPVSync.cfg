CONSTANTS
  Policies = {"retain", "delete"}
  Foreign = TRUE
  ClaimsDiffer = TRUE
SPECIFICATION LiveSpec
INVARIANT VolumeKept
PROPERTIES ImplementsPair VolumeBeforePV DeletionEnds
CHECK_DEADLOCK FALSE
