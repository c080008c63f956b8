CONSTANTS
  g1 = g1
  g2 = g2
  g3 = g3
  a = a
  b = b
  Groups = {g1, g2, g3}
  Namespaces = {a, b}
  Parts <- MCParts
  DecisionsMayFail = TRUE
SPECIFICATION Spec
SYMMETRY MCSymmetry
INVARIANTS TypeOK RecoveryIsAtomic AckedGroupsSurvive KeptGroupsRestOnKeptGroups AnswersAreStable
PROPERTIES EpochsAreNeverReused
CHECK_DEADLOCK FALSE
