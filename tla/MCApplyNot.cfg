SPECIFICATION ApplySpec
CONSTANTS
  Node <- MCNode
  Null = null
  Size = 3
  Label <- MCLabel
  MaxDomSize = 3
  Diagrams <- MCDiagrams
  FakeNode <- MCFakeNode
  Operands <- MCOperands
  Operations <- MCComplement
CHECK_DEADLOCK FALSE

PROPERTIES FlagsDecide
