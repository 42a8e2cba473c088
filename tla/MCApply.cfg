SPECIFICATION ApplySpec
CONSTANTS
  Node <- MCNode
  Null = null
  Size = 3
  Label <- MCLabel
  MaxDomSize = 3
  Diagrams <- MCDiagrams
  FakeNode <- MCFakeNode
  Operands <- MCOperands
  Operations <- MCOperations
CHECK_DEADLOCK FALSE
INVARIANTS ApplyTypeOK AppliesOperation OneNodePerCouple OperandsLeftAlone
PROPERTIES ApplyReturns FlagsDecide
