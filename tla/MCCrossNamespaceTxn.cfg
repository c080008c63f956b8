CONSTANTS
  g1 = g1
  g2 = g2
  w1 = w1
  None = None
  Groups = {g1, g2}
  Namespaces = {1, 2}
  Parts <- MCParts
  Writes = {w1}
  WriteNs <- MCWriteNs
  DecisionsMayFail = FALSE
  LogsMayFail = FALSE
  Reopens = "settled"
SPECIFICATION Spec
SYMMETRY MCSymmetry
INVARIANTS TypeOK RecoveredHeadsAreAtomic AckedCommitsSurvive LogsReplay MemoryExtendsDisk
PROPERTIES RolledBackStaysOut
CHECK_DEADLOCK FALSE
