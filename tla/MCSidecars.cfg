SPECIFICATION Parts
CONSTANTS
  Reconcilers = {r1, r2, r3}
  Monitor = m
  Groups = {g1, g2, g3}
  MaxPending = 2
  NoGroup = NoGroup
  MigrationGroups = {mg1}
  Nodes = {n1, n2}
  ListErrors = FALSE
  Volumes = {v1, v2}
  MaxCommands = 1
INVARIANTS OneCallPerGroup WithinLimit StateNotAhead RescannedBeforeCommit DataKept
PROPERTIES RefusedOnlyWhileBusy MigrationEnds VolumeMigrationEnds
CHECK_DEADLOCK FALSE
