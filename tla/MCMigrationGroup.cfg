SPECIFICATION Spec
CONSTANTS
  Groups = {g1, g2}
  Nodes = {n1, n2}
  ListErrors = FALSE
INVARIANT RescannedBeforeCommit
CHECK_DEADLOCK FALSE
