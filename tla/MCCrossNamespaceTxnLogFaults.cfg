CONSTANTS
  g1 = g1
  g2 = g2
  None = None
  Groups = {g1, g2}
  Namespaces = {1, 2}
  Parts <- MCParts
  Writes = {}
  WriteNs <- MCWriteNs
  DecisionsMayFail = FALSE
  LogsMayFail = TRUE
  Reopens = "settled"
SPECIFICATION Spec
INVARIANTS RecoveredHeadsAreAtomic AckedCommitsSurvive
PROPERTIES RefinesCoordinator
CHECK_DEADLOCK FALSE
