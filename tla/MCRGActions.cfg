SPECIFICATION Spec
CONSTANTS
  Actions = {a1, a2}
  Bad = Bad
  None = None
  Broken = Broken
  StaleCache = TRUE
  Aborts = TRUE
  UserWaits = FALSE
  UserEdits = FALSE
  EmptyGroup = TRUE
INVARIANTS SuccessIsReal NoGroupDeletedInAction NoOrphanedGroup
PROPERTY ImplementsLifecycle
SYMMETRY ActionSymmetry
CHECK_DEADLOCK FALSE
