CONSTANTS
  g1 = g1
  w1 = w1
  None = None
  Groups = {g1}
  Namespaces = {1, 2}
  Parts <- MCParts
  Writes = {w1}
  WriteNs <- MCWriteNs
  DecisionsMayFail = TRUE
  LogsMayFail = FALSE
  Reopens = "settled"
SPECIFICATION Spec
INVARIANTS AckedCommitsSurvive
CHECK_DEADLOCK FALSE
