SPECIFICATION LiveSpec
CONSTANTS
  v1 = v1
  v2 = v2
  g1 = g1
  g2 = g2
  Volumes = {v1, v2}
  Claimed = v1
  Names = {g1, g2}
  NoGroup = NoGroup
INVARIANTS ProtectedInGroup SyncMeansLinked
PROPERTY ClaimSynced
CHECK_DEADLOCK FALSE
