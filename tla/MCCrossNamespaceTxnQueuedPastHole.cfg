CONSTANTS
  g1 = g1
  w1 = w1
  w2 = w2
  None = None
  Groups = {g1}
  Namespaces = {1, 2}
  Parts <- MCParts
  Writes = {w1, w2}
  WriteNs <- MCWriteNs
  DecisionsMayFail = FALSE
  LogsMayFail = TRUE
  Reopens = "never"
SPECIFICATION Spec
INVARIANTS LogsReplay
CHECK_DEADLOCK FALSE
